---- MODULE Spec2Model ----
(***************************************************************************)
(* Model of the Boltzmann-machine network object of spike-based-sampling   *)
(* (src/network.py, src/sbs/utils.py).                                     *)
(*                                                                         *)
(* Numbers are integers: a float weight or bias is an integer, a division  *)
(* is the floored integer division.  Indices are 1-based: sampler j of the *)
(* model is self.samplers[j-1] of the code.  A numpy array is a record     *)
(* [shape, data]; the shape of a scalar is the empty tuple.  Python's None *)
(* is the record None, a raised exception is a record with an err field.   *)
(***************************************************************************)
EXTENDS Integers, Sequences, FiniteSets, TLC

\* ------------------------------------------------------------------ bounds
MaxN == 2
MaxW == 1
MaxCalibId == 2

MaxSpikes == 3
MaxT == 1
MaxSel == 2
MaxRate == 2

\* ------------------------------------------------------------ python values
None == [none |-> TRUE]

IsNone(x) == x = None

IsError(x) == "err" \in DOMAIN x

ShapeError == [err |-> "AssertionError", msg |-> "Weight matrix shape"]

IndexError == [err |-> "IndexError"]

\* Raised by a sampler asked to convert without a calibration.  A sampler is
\* built from its parameters alone and is never told its position in
\* self.samplers, and the network adds nothing to what the sampler raises.
MissingCalibrationError == [err |-> "MissingCalibrationError"]

Min(S) == CHOOSE x \in S : \A y \in S : x <= y

\* --------------------------------------------------------------- numpy
Scalar(v) == [shape |-> <<>>, data |-> v]

Filled1D(n, v) == [shape |-> <<n>>, data |-> [i \in 1..n |-> v]]

Filled2D(r, c, v) ==
    [shape |-> <<r, c>>, data |-> [i \in 1..r |-> [j \in 1..c |-> v]]]

ndim(a) == Len(a.shape)

\* utils.fill_diagonal: array[[index, index]] = value on a square array (the
\* list of index arrays is read as a tuple of indices, as numpy does under
\* the Python 2 this code is written for).
fill_diagonal_skip(array, value) == array

fill_diagonal(array, value) ==
    IF \E k \in 1..ndim(array) : array.shape[k] # array.shape[1]
    THEN [err |-> "AssertionError", msg |-> "not quadratic"]
    ELSE IF ndim(array) = 1
    THEN [array EXCEPT !.data = [i \in 1..array.shape[1] |-> value]]
    ELSE IF ndim(array) > 2
    THEN array  \* the entries of arrays of more than two dimensions are not modelled
    ELSE [array EXCEPT !.data =
            [i \in 1..array.shape[1] |->
                [j \in 1..array.shape[2] |->
                    IF i = j THEN value ELSE array.data[i][j]]]]

\* BoltzmannMachineBase._check_weight_matrix
check_weight_matrix_first_dim(num_samplers, weights) ==
    LET w == IF ndim(weights) = 0
             THEN Filled2D(num_samplers, num_samplers, weights.data)
             ELSE weights
    IN IF w.shape[1] # num_samplers THEN ShapeError ELSE fill_diagonal(w, 0)

check_weight_matrix(num_samplers, weights) ==
    LET w == IF ndim(weights) = 0
             THEN Filled2D(num_samplers, num_samplers, weights.data)
             ELSE weights
    IN IF w.shape # <<num_samplers, num_samplers>>
       THEN ShapeError
       ELSE fill_diagonal(w, 0)

\* ------------------------------------------------------------- calibration
\* The calibration with database id c: the fitted sigmoid (alpha, v_p05).
CalibIds == 1..MaxCalibId

Alpha(c) == c

VP05(c) == c - 1

\* The parameter database: neuron-parameter ids, the pyNN model each entry
\* names and the calibrations stored for it (entry 1 has none, the last entry
\* has all of them).
ParamsIds == 1..(MaxCalibId + 1)

DBModel(p) == IF p = 1 THEN "IF_curr_exp" ELSE "IF_cond_exp"

DBCalibs(p) == {c \in CalibIds : c < p}

\* ---------------------------------------------------------------- sampler
\* LIFsampler, as far as the network uses it.  calib is the id of the loaded
\* calibration, 0 when the sampler has none.
is_calibrated(sampler) == sampler.calib # 0

\* LIFsampler.convert_weights_theo_to_bio on one entry: scaling by the
\* slope of the sampler's own calibration curve.
sampler_weight_theo_to_bio(sampler, w) == w * Alpha(sampler.calib)

\* LIFsampler.convert_weights_bio_to_theo on one entry: the inverse scaling.
sampler_weight_bio_to_theo(sampler, w) == w \div Alpha(sampler.calib)

\* ---------------------------------------------------- weight conversion
\* The loop `for j, sampler in enumerate(self.samplers)`: the first
\* iteration that raises ends the call.  Iteration j raises IndexError when
\* the matrix has no column j, and what sampler j raises when it has no
\* calibration.
ConvRaises(samplers, weights) ==
    {j \in 1..Len(samplers) : j > weights.shape[2] \/ ~is_calibrated(samplers[j])}

ConvError(samplers, weights) ==
    LET j == Min(ConvRaises(samplers, weights))
    IN IF j > weights.shape[2] THEN IndexError ELSE MissingCalibrationError

ConvColumns(samplers, weights, to_bio, by_row) ==
    [shape |-> weights.shape,
     data |-> [i \in 1..weights.shape[1] |-> [j \in 1..weights.shape[2] |->
        LET k == IF by_row THEN i ELSE j
        IN IF k > Len(samplers) THEN 0
           ELSE IF to_bio
           THEN sampler_weight_theo_to_bio(samplers[k], weights.data[i][j])
           ELSE sampler_weight_bio_to_theo(samplers[k], weights.data[i][j])]]]

\* BoltzmannMachineBase.convert_weights_bio_to_theo
convert_weights_bio_to_theo_skip(samplers, weights) ==
    [shape |-> weights.shape,
     data |-> [i \in 1..weights.shape[1] |-> [j \in 1..weights.shape[2] |->
        IF j <= Len(samplers) /\ is_calibrated(samplers[j])
        THEN sampler_weight_bio_to_theo(samplers[j], weights.data[i][j]) ELSE 0]]]

convert_weights_bio_to_theo(samplers, weights) ==
    IF ConvRaises(samplers, weights) # {}
    THEN ConvError(samplers, weights)
    ELSE ConvColumns(samplers, weights, FALSE, FALSE)

\* BoltzmannMachineBase.convert_weights_theo_to_bio
convert_weights_theo_to_bio_by_source(samplers, weights) ==
    IF ConvRaises(samplers, weights) # {}
    THEN ConvError(samplers, weights)
    ELSE ConvColumns(samplers, weights, TRUE, TRUE)

convert_weights_theo_to_bio(samplers, weights) ==
    IF ConvRaises(samplers, weights) # {}
    THEN ConvError(samplers, weights)
    ELSE ConvColumns(samplers, weights, TRUE, FALSE)

\* LIFsampler.bias_theo / bias_bio: the sampler keeps the bias in the unit it
\* was given in and converts on reading the other one through its
\* calibration curve, bias_bio = alpha * bias_theo + v_p05.
sampler_bias_theo(sampler) ==
    IF sampler.bias.unit = "theo" THEN sampler.bias.val
    ELSE IF ~is_calibrated(sampler) THEN MissingCalibrationError
    ELSE (sampler.bias.val - VP05(sampler.calib)) \div Alpha(sampler.calib)

sampler_bias_bio(sampler) ==
    IF sampler.bias.unit = "bio" THEN sampler.bias.val
    ELSE IF ~is_calibrated(sampler) THEN MissingCalibrationError
    ELSE sampler.bias.val * Alpha(sampler.calib) + VP05(sampler.calib)

\* samplers.LIFsampler(id=..., sim_name=..., silent=True): a fresh sampler,
\* not calibrated, bias zero, not created in the backend.
LIFsampler(id) ==
    [params_id |-> id, pynn_model |-> DBModel(id), calib |-> 0,
     bias |-> [unit |-> "theo", val |-> 0], created |-> FALSE]

\* --------------------------------------------------------------- state
VARIABLES
    num_samplers,   \* self.num_samplers
    samplers,       \* self.samplers
    population,     \* self.population
    weights_theo,   \* value kept for the attribute weights_theo, None = stale
    weights_bio,    \* value kept for the attribute weights_bio, None = stale
    delays,         \* self.delays
    tso_params,     \* value kept for the attribute tso_params, None = not set
    saturating_synapses_enabled,
    sim_name,       \* self.sim_name
    selected_sampler_idx,
    db_current_basename,    \* db.current_basename, the tag of the live database
    saved,          \* the last record __getstate__ returned, None before
    spike_data,     \* ThoroughBM: value kept for the attribute spike_data
    projections,    \* ThoroughBM: self.projections, None before create
    caller_arrays,  \* the rate arrays a caller of the kernels in utils holds
    exchange,       \* gather_calibration_data: caller, worker and channel
    rapid,          \* RapidBMBase: the fields the rapid variants add
    last_write,     \* history: the view written last and the value stored
    ret             \* the last call: its name, argument and result

\* what the weight and bias operations leave alone
rest == <<tso_params, saturating_synapses_enabled, sim_name,
          selected_sampler_idx, db_current_basename, saved, spike_data,
          projections, caller_arrays, exchange, rapid>>

vars == <<num_samplers, samplers, population, weights_theo, weights_bio,
          delays, rest, last_write, ret>>

\* ------------------------------------------- weights_theo / weights_bio
\* setter part of weights_theo
weights_theo_setter(n, weights) == check_weight_matrix(n, weights)

\* setter part of weights_bio
weights_bio_setter(n, weights) == check_weight_matrix(n, weights)

\* getter part of weights_theo
weights_theo_getter_raw(smp, wbio) == wbio

weights_theo_getter(smp, wbio) == convert_weights_bio_to_theo(smp, wbio)

\* getter part of weights_bio
weights_bio_getter_raw(smp, wtheo) == wtheo

weights_bio_getter(smp, wtheo) == convert_weights_theo_to_bio(smp, wtheo)

\* meta.DependsOn, assignment: the value the setter part returns is kept for
\* the attribute and the attribute that depends on it is marked stale.  A
\* setter that raises leaves both as they were.
SetWeightsTheo(w) ==
    LET r == weights_theo_setter(num_samplers, w)
    IN /\ ret' = [op |-> "set_weights_theo", arg |-> w, val |-> r]
       /\ IF IsError(r)
          THEN UNCHANGED <<weights_theo, weights_bio, last_write>>
          ELSE /\ weights_theo' = r
               /\ weights_bio' = None
               /\ last_write' = [view |-> "theo", val |-> r]
       /\ UNCHANGED <<num_samplers, samplers, population, delays, rest>>

SetWeightsBio(w) ==
    LET r == weights_bio_setter(num_samplers, w)
    IN /\ ret' = [op |-> "set_weights_bio", arg |-> w, val |-> r]
       /\ IF IsError(r)
          THEN UNCHANGED <<weights_theo, weights_bio, last_write>>
          ELSE /\ weights_bio' = r
               /\ weights_theo' = None
               /\ last_write' = [view |-> "bio", val |-> r]
       /\ UNCHANGED <<num_samplers, samplers, population, delays, rest>>

\* meta.DependsOn, read: a stale attribute is recomputed by the getter part
\* and kept; a getter that raises keeps nothing.
GetWeightsTheo ==
    LET r == IF IsNone(weights_theo)
             THEN weights_theo_getter(samplers, weights_bio)
             ELSE weights_theo
    IN /\ ret' = [op |-> "get_weights_theo", val |-> r]
       /\ weights_theo' = IF IsError(r) THEN weights_theo ELSE r
       /\ UNCHANGED <<num_samplers, samplers, population, weights_bio,
                      delays, rest, last_write>>

GetWeightsBio ==
    LET r == IF IsNone(weights_bio)
             THEN weights_bio_getter(samplers, weights_theo)
             ELSE weights_bio
    IN /\ ret' = [op |-> "get_weights_bio", val |-> r]
       /\ weights_bio' = IF IsError(r) THEN weights_bio ELSE r
       /\ UNCHANGED <<num_samplers, samplers, population, weights_theo,
                      delays, rest, last_write>>

\* a direct call of convert_weights_bio_to_theo(m)
ConvertWeightsBioToTheo(m) ==
    /\ ret' = [op |-> "convert_weights_bio_to_theo", arg |-> m,
               val |-> convert_weights_bio_to_theo(samplers, m)]
    /\ UNCHANGED <<num_samplers, samplers, population, weights_theo,
                   weights_bio, delays, rest, last_write>>

\* a direct call of convert_weights_theo_to_bio(m)
ConvertWeightsTheoToBio(m) ==
    /\ ret' = [op |-> "convert_weights_theo_to_bio", arg |-> m,
               val |-> convert_weights_theo_to_bio(samplers, m)]
    /\ UNCHANGED <<num_samplers, samplers, population, weights_theo,
                   weights_bio, delays, rest, last_write>>

\* convert_weights_bio_to_theo(convert_weights_theo_to_bio(m))
RoundTripWeights(m) ==
    LET mid == convert_weights_theo_to_bio(samplers, m)
    IN /\ ret' = [op |-> "roundtrip_weights", arg |-> m, mid |-> mid,
                  val |-> IF IsError(mid) THEN mid
                          ELSE convert_weights_bio_to_theo(samplers, mid)]
       /\ UNCHANGED <<num_samplers, samplers, population, weights_theo,
                      weights_bio, delays, rest, last_write>>

\* ----------------------------------------------------------------- inputs
WVals == (0 - MaxW)..MaxW

\* Square matrices with one value above the diagonal, one below it and one
\* on it (for n = 1 every matrix).
SquareInputs(n) ==
    {[shape |-> <<n, n>>,
      data |-> [i \in 1..n |-> [j \in 1..n |->
                  IF i < j THEN a ELSE IF i > j THEN b ELSE d]]] :
        a \in WVals, b \in WVals, d \in WVals}

ScalarInputs == {Scalar(v) : v \in WVals}

\* Arrays of every other shape up to (n+1) x (n+1), and an n x n x n one.
OtherShapeInputs(n) ==
    {Filled1D(k, 1) : k \in 1..(n + 1)}
    \cup {Filled2D(r, c, 1) : r \in 1..(n + 1), c \in 1..(n + 1)}
    \cup {[shape |-> <<n, n, n>>, data |-> <<>>]}

WeightInputs(n) == ScalarInputs \cup SquareInputs(n) \cup OtherShapeInputs(n)

\* -------------------------------------------------------------- __init__
\* BoltzmannMachineBase.__init__ with neuron_parameters_db_ids = ids: the
\* samplers are built from the database entries, weights_theo = 0. and
\* delays = 0.1 (the integer 1 here) go through their setters.
InitFields(ids) ==
    /\ num_samplers = Len(ids)
    /\ samplers = [j \in 1..Len(ids) |-> LIFsampler(ids[j])]
    /\ population = None
    /\ weights_theo = check_weight_matrix(Len(ids), Scalar(0))
    /\ weights_bio = None
    /\ delays = Filled2D(Len(ids), Len(ids), 1)
    /\ tso_params = None
    /\ saturating_synapses_enabled = TRUE
    /\ sim_name = "pyNN.nest"
    /\ selected_sampler_idx = [j \in 1..Len(ids) |-> j - 1]
    /\ db_current_basename = "db_a"
    /\ saved = None
    /\ spike_data = None
    /\ projections = None
    /\ caller_arrays = None
    /\ exchange = None
    /\ last_write = [view |-> "theo", val |-> weights_theo]
    /\ ret = [op |-> "init"]

\* A BoltzmannMachineBase proper has none of the fields of RapidBMBase.
InitNetwork(ids) == InitFields(ids) /\ rapid = None

\* The network after construction and a load_calibration that gave sampler j
\* the calibration c[j] (0: none).
InitCalibrated(c) ==
    /\ num_samplers = Len(c)
    /\ samplers = [j \in 1..Len(c) |->
                     [LIFsampler(MaxCalibId + 1) EXCEPT !.calib = c[j]]]
    /\ population = None
    /\ weights_theo = check_weight_matrix(Len(c), Scalar(0))
    /\ weights_bio = None
    /\ delays = Filled2D(Len(c), Len(c), 1)
    /\ tso_params = None
    /\ saturating_synapses_enabled = TRUE
    /\ sim_name = "pyNN.nest"
    /\ selected_sampler_idx = [j \in 1..Len(c) |-> j - 1]
    /\ db_current_basename = "db_a"
    /\ saved = None
    /\ spike_data = None
    /\ projections = None
    /\ caller_arrays = None
    /\ exchange = None
    /\ rapid = None
    /\ last_write = [view |-> "theo", val |-> weights_theo]
    /\ ret = [op |-> "init"]

\* ------------------------------------------------ conversion specification
\* One call of a conversion on a network of 1..MaxN samplers, each with any
\* calibration or none.
InitConv ==
    \E n \in 1..MaxN : \E c \in [1..n -> 0..MaxCalibId] : InitCalibrated(c)

NextConv ==
    \/ \E m \in SquareInputs(num_samplers) :
          ret.op = "init" /\ ConvertWeightsBioToTheo(m)
    \/ \E m \in SquareInputs(num_samplers) :
          ret.op = "init" /\ ConvertWeightsTheoToBio(m)
    \/ \E m \in SquareInputs(num_samplers) :
          ret.op = "init" /\ RoundTripWeights(m)

SpecConv == InitConv /\ [][NextConv]_vars

\* --------------------------------------------------- weights specification
\* Assignments to and reads of weights_theo and weights_bio, on a network in
\* which every sampler has a calibration or all but the last one have.
InitWeights ==
    \E n \in 1..MaxN : \E u \in {n, n + 1} :
        InitCalibrated([j \in 1..n |-> IF j >= u THEN 0
                                       ELSE 1 + (j % MaxCalibId)])

NextWeights ==
    \/ \E w \in WeightInputs(num_samplers) : SetWeightsTheo(w)
    \/ \E w \in WeightInputs(num_samplers) : SetWeightsBio(w)
    \/ GetWeightsTheo
    \/ GetWeightsBio

SpecWeights == InitWeights /\ [][NextWeights]_vars

\* ======================================================= claims C1 .. C5
IsSquare(a, n) ==
    /\ a.shape = <<n, n>>
    /\ DOMAIN a.data = 1..n
    /\ \A i \in 1..n : DOMAIN a.data[i] = 1..n

ZeroDiagonal(a) == \A i \in 1..a.shape[1] : a.data[i][i] = 0

WrittenView == IF last_write.view = "theo" THEN weights_theo ELSE weights_bio

AllCalibrated == \A j \in 1..num_samplers : is_calibrated(samplers[j])

IsSetWeights == ret.op \in {"set_weights_theo", "set_weights_bio"}

\* C1: after any sequence of assignments to weights_theo and weights_bio the
\* weight matrix kept for the assigned view is N x N and its diagonal is 0,
\* whatever diagonal the assigned value had.
C1_StoredWeightsZeroDiagonal ==
    /\ IsSquare(WrittenView, num_samplers)
    /\ ZeroDiagonal(WrittenView)
    /\ (IsSetWeights /\ ~IsError(ret.val)) => ret.val = WrittenView

\* C1 witness: a matrix with a non-zero diagonal was assigned and stored.
C1_Witness ==
    /\ ret.op = "set_weights_bio"
    /\ ret.arg.shape = <<num_samplers, num_samplers>>
    /\ ret.arg.data[1][1] # 0
    /\ weights_bio = ret.val
    /\ weights_bio.data[1][1] = 0

\* C2: convert_weights_bio_to_theo returns a matrix with a zero diagonal for
\* every input matrix.
C2_ConvertedDiagonalZero ==
    (ret.op = "convert_weights_bio_to_theo" /\ ~IsError(ret.val))
        => ZeroDiagonal(ret.val)

\* C3: for a zero-diagonal W and calibrated samplers,
\* bio_to_theo(theo_to_bio(W)) = W, and entry [i, j] of theo_to_bio(W) is
\* W[i, j] converted by sampler j, the target.
C3_RoundTrip ==
    (ret.op = "roundtrip_weights" /\ AllCalibrated /\ ZeroDiagonal(ret.arg))
        => /\ ret.val = ret.arg
           /\ \A i \in 1..num_samplers : \A j \in 1..num_samplers :
                ret.mid.data[i][j]
                    = sampler_weight_theo_to_bio(samplers[j], ret.arg.data[i][j])

\* C3 witness: a round trip through two samplers with different calibrations
\* whose biological form differs from W.
C3_Witness ==
    /\ ret.op = "roundtrip_weights"
    /\ AllCalibrated
    /\ num_samplers >= 2
    /\ samplers[1].calib # samplers[2].calib
    /\ ZeroDiagonal(ret.arg)
    /\ ret.arg.data[1][2] # 0
    /\ ret.arg.data[2][1] # 0
    /\ ret.mid # ret.arg
    /\ ret.val = ret.arg

\* C4: a read of weights_theo or weights_bio returns the value written last
\* if that view was written last, and its conversion otherwise.
C4_ReadReflectsLastWrite ==
    /\ (ret.op = "get_weights_theo" /\ ~IsError(ret.val))
          => ret.val = IF last_write.view = "theo" THEN last_write.val
                       ELSE convert_weights_bio_to_theo(samplers, last_write.val)
    /\ (ret.op = "get_weights_bio" /\ ~IsError(ret.val))
          => ret.val = IF last_write.view = "bio" THEN last_write.val
                       ELSE convert_weights_theo_to_bio(samplers, last_write.val)

\* C4 witness: weights_bio read after weights_theo was written, the value
\* read being the conversion and not the written matrix.
C4_Witness ==
    /\ ret.op = "get_weights_bio"
    /\ last_write.view = "theo"
    /\ ~IsError(ret.val)
    /\ ret.val # last_write.val
    /\ ret.val = weights_bio

\* C5: an assignment of an array whose shape is not (N, N) is rejected.
C5_WrongShapeRejected ==
    (IsSetWeights /\ ndim(ret.arg) # 0
        /\ ret.arg.shape # <<num_samplers, num_samplers>>)
        => ret.val = ShapeError

\* C5 witness: a 1-D array of length N was assigned and rejected.
C5_Witness ==
    /\ ret.op = "set_weights_theo"
    /\ ret.arg.shape = <<num_samplers>>
    /\ ret.val = ShapeError

\* ======================================================== biases
\* LIFsampler.bias_theo = b / LIFsampler.bias_bio = b
sampler_set_bias(sampler, unit, b) ==
    [sampler EXCEPT !.bias = [unit |-> unit, val |-> b]]

\* setter part of biases_theo and of biases_bio: a scalar is repeated, and
\* izip pairs the values with the samplers up to the shorter of the two.  The
\* backend side of sync_bias_to_pynn is outside the model.
set_biases(smp, biases, unit) ==
    [j \in 1..Len(smp) |->
        IF ndim(biases) = 0 THEN sampler_set_bias(smp[j], unit, biases.data)
        ELSE IF j <= biases.shape[1]
        THEN sampler_set_bias(smp[j], unit, biases.data[j])
        ELSE smp[j]]

\* getter part of biases_theo: np.array([s.bias_theo for s in self.samplers])
biases_theo_getter(smp) ==
    IF \E j \in 1..Len(smp) : smp[j].bias.unit # "theo" /\ ~is_calibrated(smp[j])
    THEN MissingCalibrationError
    ELSE [shape |-> <<Len(smp)>>,
          data |-> [j \in 1..Len(smp) |-> sampler_bias_theo(smp[j])]]

\* getter part of biases_bio: np.array([s.bias_bio for s in self.samplers])
biases_bio_getter(smp) ==
    IF \E j \in 1..Len(smp) : smp[j].bias.unit # "bio" /\ ~is_calibrated(smp[j])
    THEN MissingCalibrationError
    ELSE [shape |-> <<Len(smp)>>,
          data |-> [j \in 1..Len(smp) |-> sampler_bias_bio(smp[j])]]

\* The setter parts return nothing, so nothing is kept for biases_theo and
\* biases_bio and every read runs the getter part.
SetBiasesTheo(b) ==
    /\ samplers' = set_biases(samplers, b, "theo")
    /\ ret' = [op |-> "set_biases_theo", arg |-> b, val |-> None]
    /\ UNCHANGED <<num_samplers, population, weights_theo, weights_bio,
                   delays, rest, last_write>>

SetBiasesBio(b) ==
    /\ samplers' = set_biases(samplers, b, "bio")
    /\ ret' = [op |-> "set_biases_bio", arg |-> b, val |-> None]
    /\ UNCHANGED <<num_samplers, population, weights_theo, weights_bio,
                   delays, rest, last_write>>

GetBiasesTheo ==
    /\ ret' = [op |-> "get_biases_theo", val |-> biases_theo_getter(samplers)]
    /\ UNCHANGED <<num_samplers, samplers, population, weights_theo,
                   weights_bio, delays, rest, last_write>>

GetBiasesBio ==
    /\ ret' = [op |-> "get_biases_bio", val |-> biases_bio_getter(samplers)]
    /\ UNCHANGED <<num_samplers, samplers, population, weights_theo,
                   weights_bio, delays, rest, last_write>>

\* ------------------------------------------------------------ bias inputs
MaxB == 1

BiasVals == 0..MaxB

\* a scalar, or a list of 0..n+1 equal values
BiasInputs(n) ==
    {Scalar(v) : v \in BiasVals}
    \cup {Filled1D(k, v) : k \in 0..(n + 1), v \in BiasVals}

\* ----------------------------------------------------- bias specification
\* Assignments to and reads of the biases and the weights on a network in
\* which any of the samplers may have no calibration.
InitBias ==
    \E n \in 1..MaxN : \E c \in [1..n -> BOOLEAN] :
        InitCalibrated([j \in 1..n |-> IF c[j] THEN 1 + (j % MaxCalibId) ELSE 0])

NextBias ==
    \/ \E b \in BiasInputs(num_samplers) : SetBiasesTheo(b)
    \/ \E b \in BiasInputs(num_samplers) : SetBiasesBio(b)
    \/ GetBiasesTheo
    \/ GetBiasesBio
    \/ \E w \in {Scalar(1), Filled1D(num_samplers, 1)} : SetWeightsTheo(w)
    \/ \E w \in {Scalar(1), Filled1D(num_samplers, 1)} : SetWeightsBio(w)
    \/ GetWeightsTheo
    \/ GetWeightsBio
    \/ ConvertWeightsBioToTheo(Filled2D(num_samplers, num_samplers, 1))
    \/ ConvertWeightsTheoToBio(Filled2D(num_samplers, num_samplers, 1))

SpecBias == InitBias /\ [][NextBias]_vars

\* ======================================================= claims C6, C7
IsAssignment(r) ==
    r.op \in {"set_weights_theo", "set_weights_bio",
              "set_biases_theo", "set_biases_bio"}

\* the assigned value has the wrong shape (weights) or length (biases)
WrongShape(r, n) ==
    IF r.op \in {"set_weights_theo", "set_weights_bio"}
    THEN ndim(r.arg) # 0 /\ r.arg.shape # <<n, n>>
    ELSE ndim(r.arg) # 0 /\ r.arg.shape # <<n>>

\* C6: an assignment to weights_theo, weights_bio, biases_theo or biases_bio
\* that fails or is given a value of the wrong shape or length leaves the
\* stored weights and every sampler's bias as they were.
C6_BadAssignmentChangesNothing ==
    [][(IsAssignment(ret') /\ (IsError(ret'.val) \/ WrongShape(ret', num_samplers)))
         => /\ samplers' = samplers
            /\ weights_theo' = weights_theo
            /\ weights_bio' = weights_bio]_vars

Uncalibrated == {j \in 1..num_samplers : ~is_calibrated(samplers[j])}

\* the samplers without a calibration whose conversion the last call needed
InvolvedUncalibrated ==
    IF ret.op \in {"convert_weights_bio_to_theo", "convert_weights_theo_to_bio"}
    THEN Uncalibrated
    ELSE IF ret.op = "get_weights_theo" /\ last_write.view = "bio"
    THEN Uncalibrated
    ELSE IF ret.op = "get_weights_bio" /\ last_write.view = "theo"
    THEN Uncalibrated
    ELSE IF ret.op = "get_biases_theo"
    THEN {j \in Uncalibrated : samplers[j].bias.unit = "bio"}
    ELSE IF ret.op = "get_biases_bio"
    THEN {j \in Uncalibrated : samplers[j].bias.unit = "theo"}
    ELSE {}

C7_ConversionFails ==
    InvolvedUncalibrated # {} => ret.val = MissingCalibrationError

\* ================================================= load_calibration
Max(S) == CHOOSE x \in S : \A y \in S : x >= y

\* the k-th smallest element of a set of numbers
Kth(S, k) == CHOOSE x \in S : Cardinality({y \in S : y < x}) = k - 1

\* LIFsampler.load_calibration(id=id) succeeds: with id None (0 here) when
\* the sampler's parameters have a calibration at all (the latest is loaded),
\* with an id when that calibration belongs to the sampler's parameters.
sampler_load_ok(sampler, id) ==
    IF id = 0 THEN DBCalibs(sampler.params_id) # {}
    ELSE id \in DBCalibs(sampler.params_id)

\* the sampler after LIFsampler.load_calibration(id=id)
sampler_load_calibration(sampler, id) ==
    IF ~sampler_load_ok(sampler, id) THEN sampler
    ELSE [sampler EXCEPT !.calib =
            IF id = 0 THEN Max(DBCalibs(sampler.params_id)) ELSE id]

\* id = ids[i] if i < len(ids) else None
IdFor(ids, j) == IF j <= Len(ids) THEN ids[j] ELSE 0

\* BoltzmannMachineBase.load_calibration(*ids): the samplers afterwards and
\* the list returned.
load_calibration_stop(smp, ids) ==
    LET bad == {j \in 1..Len(smp) : ~sampler_load_ok(smp[j], IdFor(ids, j))}
    IN IF bad = {}
       THEN [samplers |-> [j \in 1..Len(smp) |->
                              sampler_load_calibration(smp[j], IdFor(ids, j))],
             failed |-> <<>>]
       ELSE [samplers |-> [j \in 1..Len(smp) |->
                              IF j < Min(bad)
                              THEN sampler_load_calibration(smp[j], IdFor(ids, j))
                              ELSE smp[j]],
             failed |-> <<smp[Min(bad)].params_id>>]

load_calibration(smp, ids) ==
    LET bad == {j \in 1..Len(smp) : ~sampler_load_ok(smp[j], IdFor(ids, j))}
    IN [samplers |-> [j \in 1..Len(smp) |->
                         sampler_load_calibration(smp[j], IdFor(ids, j))],
        failed |-> [k \in 1..Cardinality(bad) |-> smp[Kth(bad, k)].params_id]]

LoadCalibration(ids) ==
    LET r == load_calibration(samplers, ids)
    IN /\ samplers' = r.samplers
       /\ ret' = [op |-> "load_calibration", arg |-> ids, val |-> r.failed]
       /\ UNCHANGED <<num_samplers, population, weights_theo, weights_bio,
                      delays, rest, last_write>>

\* the ids given: up to one per sampler, each a calibration id or None (0),
\* or one id more than there are samplers
IdTuples(n) ==
    UNION {[1..k -> 0..MaxCalibId] : k \in 0..n}
    \cup {[j \in 1..(n + 1) |-> c] : c \in 0..MaxCalibId}

\* ------------------------------------------------ calibration specification
\* load_calibration on a network built from any database ids.
InitCalib ==
    \E n \in 1..MaxN : \E ids \in [1..n -> ParamsIds] : InitNetwork(ids)

NextCalib == \E ids \in IdTuples(num_samplers) : LoadCalibration(ids)

SpecCalib == InitCalib /\ [][NextCalib]_vars

\* ============================================================ claim C8
\* the samplers whose load fails in load_calibration(*ids)
FailingLoads(ids) ==
    {j \in 1..num_samplers :
        LET id == IF j <= Len(ids) THEN ids[j] ELSE 0
            have == DBCalibs(samplers[j].params_id)
        IN IF id = 0 THEN have = {} ELSE id \notin have}

\* C8: load_calibration(*ids) loads a calibration into every sampler whose
\* load succeeds, also after a failure, and returns the neuron-parameter ids
\* of the samplers whose load failed, in sampler order; the list is empty iff
\* no load failed.
C8_LoadCalibrationCollectsFailures ==
    ret.op = "load_calibration" =>
        LET F == FailingLoads(ret.arg)
        IN /\ Len(ret.val) = Cardinality(F)
           /\ \A k \in 1..Len(ret.val) :
                ret.val[k] = samplers[Kth(F, k)].params_id
           /\ (ret.val = <<>>) <=> (F = {})
           /\ \A j \in (1..num_samplers) \ F :
                samplers[j].calib =
                    IF j <= Len(ret.arg) /\ ret.arg[j] # 0 THEN ret.arg[j]
                    ELSE Max(DBCalibs(samplers[j].params_id))

\* C8 witness: the load of sampler 1 failed, sampler 2 was still loaded with
\* the latest calibration, and the list names sampler 1 alone.
C8_Witness ==
    /\ ret.op = "load_calibration"
    /\ num_samplers = 2
    /\ Len(ret.arg) = 1
    /\ ret.arg[1] # 0
    /\ ret.val = <<samplers[1].params_id>>
    /\ samplers[1].calib = 0
    /\ samplers[2].calib = Max(DBCalibs(samplers[2].params_id))
    /\ samplers[1].params_id # samplers[2].params_id

\* ======================================================== life cycle
DurationError == [err |-> "AssertionError", msg |-> "Duration must be set!"]

ModelError ==
    [err |-> "AssertionError", msg |-> "The samplers have different pynn_models."]

DatabaseMismatch == [err |-> "Exception", msg |-> "Database mismatch"]

\* BoltzmannMachineBase.all_samplers_same_model
all_samplers_same_model(smp) ==
    \A j \in 1..Len(smp) : smp[j].pynn_model = smp[1].pynn_model

\* BoltzmannMachineBase.is_created
is_created(pop) == ~IsNone(pop)

\* BoltzmannMachineBase.create(duration): the value returned or the error
\* raised, and self.population and the samplers afterwards.  The backend
\* calls (sim.Population, sampler.create, the nest sources) succeed.
create_unchecked(pop, smp, duration) ==
    IF IsNone(duration)
    THEN [val |-> DurationError, population |-> pop, samplers |-> smp]
    ELSE LET new == [size |-> Len(smp), model |-> smp[1].pynn_model]
         IN [val |-> new, population |-> new,
             samplers |-> [j \in 1..Len(smp) |-> [smp[j] EXCEPT !.created = TRUE]]]

create(pop, smp, duration) ==
    IF IsNone(duration)
    THEN [val |-> DurationError, population |-> pop, samplers |-> smp]
    ELSE IF ~all_samplers_same_model(smp)
    THEN [val |-> ModelError, population |-> pop, samplers |-> smp]
    ELSE LET new == [size |-> Len(smp), model |-> smp[1].pynn_model]
         IN [val |-> new, population |-> new,
             samplers |-> [j \in 1..Len(smp) |-> [smp[j] EXCEPT !.created = TRUE]]]

Create(duration) ==
    LET r == create(population, samplers, duration)
    IN /\ population' = r.population
       /\ samplers' = r.samplers
       /\ ret' = [op |-> "create", duration |-> duration, val |-> r.val]
       /\ UNCHANGED <<num_samplers, weights_theo, weights_bio, delays, rest,
                      last_write>>

\* BoltzmannMachineBase._check_delays: a scalar is broadcast, an array is
\* taken as it is.
check_delays(n, d) == IF ndim(d) = 0 THEN Filled2D(n, n, d.data) ELSE d

\* self.delays = d (a created network only logs a warning)
SetDelays(d) ==
    /\ delays' = check_delays(num_samplers, d)
    /\ ret' = [op |-> "set_delays", arg |-> d, val |-> None]
    /\ UNCHANGED <<num_samplers, samplers, population, weights_theo,
                   weights_bio, rest, last_write>>

\* getter part of tso_params
DefaultTso == [U |-> 1, u |-> 1]

\* BoltzmannMachineBase.__getstate__.  Reading weights_theo and tso_params
\* keeps what their getter parts return; a getter that raises ends the call.
GetState ==
    LET w == IF IsNone(weights_theo)
             THEN weights_theo_getter(samplers, weights_bio) ELSE weights_theo
        b == biases_theo_getter(samplers)
        tso == IF IsNone(tso_params) THEN DefaultTso ELSE tso_params
        state == [calibration_ids |-> [j \in 1..Len(samplers) |-> samplers[j].calib],
                  current_basename |-> db_current_basename,
                  weights |-> w,
                  biases |-> b,
                  delays |-> delays,
                  sim_name |-> sim_name,
                  num_samplers |-> num_samplers,
                  params_ids |-> [j \in 1..Len(samplers) |-> samplers[j].params_id],
                  saturating_synapses_enabled |-> saturating_synapses_enabled,
                  tso_params |-> tso]
    IN /\ weights_theo' = IF IsError(w) THEN weights_theo ELSE w
       /\ tso_params' = IF IsError(w) \/ IsError(b) THEN tso_params ELSE tso
       /\ saved' = IF IsError(w) \/ IsError(b) THEN saved ELSE state
       /\ ret' = [op |-> "getstate",
                  val |-> IF IsError(w) THEN w ELSE IF IsError(b) THEN b ELSE state]
       /\ UNCHANGED <<num_samplers, samplers, population, weights_bio, delays,
                      saturating_synapses_enabled, sim_name,
                      selected_sampler_idx, db_current_basename, spike_data,
                      projections, last_write,
                   caller_arrays, exchange, rapid>>

\* The check __setstate__ starts with: the tag of the record against the tag
\* of the live database.
database_matches_any(state, basename) == TRUE

database_matches(state, basename) == state.current_basename = basename

\* BoltzmannMachineBase.__setstate__(state) on this network object: after the
\* database check __init__ runs again (new samplers, population = None,
\* weights_theo = 0., defaults), then the calibrations are loaded and the
\* saved weights, biases, delays, tso_params and flag are assigned.
SetState(state) ==
    IF ~database_matches(state, db_current_basename)
    THEN /\ ret' = [op |-> "setstate", val |-> DatabaseMismatch]
         /\ UNCHANGED <<num_samplers, samplers, population, weights_theo,
                        weights_bio, delays, rest, last_write>>
    ELSE LET n == state.num_samplers
             fresh == [j \in 1..n |-> LIFsampler(state.params_ids[j])]
             loaded == [j \in 1..n |->
                          IF state.calibration_ids[j] # 0
                          THEN sampler_load_calibration(fresh[j],
                                                        state.calibration_ids[j])
                          ELSE fresh[j]]
             w == weights_theo_setter(n, state.weights)
         IN /\ num_samplers' = n
            /\ sim_name' = state.sim_name
            /\ population' = None
            /\ selected_sampler_idx' = [j \in 1..n |-> j - 1]
            /\ samplers' = set_biases(loaded, state.biases, "theo")
            /\ weights_theo' = w
            /\ weights_bio' = None
            /\ last_write' = [view |-> "theo", val |-> w]
            /\ delays' = check_delays(n, state.delays)
            /\ tso_params' = state.tso_params
            /\ saturating_synapses_enabled' = state.saturating_synapses_enabled
            /\ ret' = [op |-> "setstate", val |-> None]
            /\ UNCHANGED <<db_current_basename, saved, spike_data, projections,
                   caller_arrays, exchange, rapid>>

TypeError == [err |-> "TypeError"]

\* ThoroughBM.__getstate__: super(ThoroughBM, self).__getstate__ is a bound
\* method and is called with self once more, one argument too many; the call
\* raises before any attribute is read.
thorough_getstate(base_state, ssi, sd) == TypeError

ThoroughGetState ==
    /\ ret' = [op |-> "thorough_getstate",
               val |-> thorough_getstate(saved, selected_sampler_idx, spike_data)]
    /\ UNCHANGED <<num_samplers, samplers, population, weights_theo,
                   weights_bio, delays, rest, last_write>>

\* db.current_basename after another database was set up; both databases
\* hold the same entries.
SwitchDatabase(basename) ==
    /\ db_current_basename' = basename
    /\ ret' = [op |-> "switch_database", arg |-> basename]
    /\ UNCHANGED <<num_samplers, samplers, population, weights_theo,
                   weights_bio, delays, tso_params,
                   saturating_synapses_enabled, sim_name,
                   selected_sampler_idx, saved, spike_data, projections,
                   last_write,
                   caller_arrays, exchange, rapid>>

\* ----------------------------------------------- life-cycle specification
\* A network built from database ids, the first k samplers from entry 1 and
\* the others from the last entry; it is created, assigned to, calibrated,
\* saved and restored in any order.
InitLife ==
    \E n \in 1..MaxN : \E k \in 0..n :
        InitNetwork([j \in 1..n |-> IF j <= k THEN 1 ELSE MaxCalibId + 1])

NextLife ==
    \/ \E d \in {None, Scalar(1)} : Create(d)
    \/ \E w \in {Scalar(0), Scalar(1)} : SetWeightsTheo(w)
    \/ \E b \in {Scalar(0), Scalar(1)} : SetBiasesTheo(b)
    \/ SetDelays(Scalar(2))
    \/ LoadCalibration(<<>>)
    \/ GetState
    \/ ThoroughGetState
    \/ \E t \in {"db_a", "db_b"} : SwitchDatabase(t)
    \/ ~IsNone(saved) /\ SetState(saved)

SpecLife == InitLife /\ [][NextLife]_vars

\* ======================================================= claims C9, C10
\* C9: once the network is created, no operation brings it back to not
\* created.
C9_CreatedIsIrreversible ==
    [][is_created(population) => is_created(population')]_vars

MixedModels ==
    \E i \in 1..num_samplers : \E j \in 1..num_samplers :
        samplers[i].pynn_model # samplers[j].pynn_model

Restorable ==
    <<num_samplers, samplers, population, weights_theo, weights_bio, delays,
      tso_params, saturating_synapses_enabled, sim_name, selected_sampler_idx,
      spike_data, projections>>

\* C12: restoring a record whose current_basename differs from the tag of
\* the live database fails with the database-mismatch error, and nothing of
\* the object is modified: samplers, weights, biases, delays and the other
\* attributes are what they were.
C12_MismatchFailsBeforeModifying ==
    [][(ret'.op = "setstate" /\ saved.current_basename # db_current_basename)
         => /\ ret'.val = DatabaseMismatch
            /\ Restorable' = Restorable]_vars

\* C12 witness: a restore was refused on a network whose weights, biases and
\* delays differ from the ones in the record.
C12_Witness ==
    /\ ret.op = "setstate"
    /\ ret.val = DatabaseMismatch
    /\ saved.current_basename # db_current_basename
    /\ weights_theo # saved.weights
    /\ biases_theo_getter(samplers) # saved.biases
    /\ delays # saved.delays

\* C13: a record can be produced for the base class and for ThoroughBM, and
\* after a restore against the same database the network has the weights,
\* biases, delays, sim_name, num_samplers, saturating_synapses_enabled and
\* tso_params of the record, its samplers built from params_ids with the
\* calibrations of calibration_ids.
C13_PersistRestoreRoundTrips ==
    /\ (ret.op \in {"getstate", "thorough_getstate"} => ~IsError(ret.val))
    /\ (ret.op = "setstate" /\ ret.val = None
          => /\ weights_theo = saved.weights
             /\ biases_theo_getter(samplers) = saved.biases
             /\ delays = saved.delays
             /\ sim_name = saved.sim_name
             /\ num_samplers = saved.num_samplers
             /\ saturating_synapses_enabled = saved.saturating_synapses_enabled
             /\ tso_params = saved.tso_params
             /\ \A j \in 1..num_samplers :
                   /\ samplers[j].params_id = saved.params_ids[j]
                   /\ samplers[j].calib = saved.calibration_ids[j])

\* ================================================== ThoroughBM.create
NameError == [err |-> "NameError", name |-> "population"]

\* np.nonzero of an n x n mask walks the index pairs in row-major order
RowMajor(n) ==
    [k \in 1..(n * n) |-> <<((k - 1) \div n) + 1, ((k - 1) % n) + 1>>]

\* weight_is["exc"] = weights_bio > 0., weight_is["inh"] = weights_bio < 0.
weight_is(wbio, wt, i, j) ==
    IF wt = "exc" THEN wbio.data[i][j] > 0 ELSE wbio.data[i][j] < 0

\* sampler.get_pynn_parameters()["tau_syn_E"] and ["tau_syn_I"]
sampler_tau_syn(sampler, wt) ==
    IF wt = "exc" THEN sampler.params_id ELSE sampler.params_id + 1

\* the key "tau_rec" in self.tso_params (read through the getter part)
tau_rec_overwritten(tso) == ~IsNone(tso) /\ "tau_rec" \in DOMAIN tso

\* connection_list for one receptor type: one (i_pre, i_post, weight, delay)
\* per pair the mask selects, the weight taken from the copy of weights_bio
\* that was negated for "inh" and scaled by 1000. for native nest synapses.
connection_list(wbio, dl, smp, wt, saturating, nest_opt, tau_over) ==
    LET Selected(p) == weight_is(wbio, wt, p[1], p[2])
        sel == SelectSeq(RowMajor(wbio.shape[1]), Selected)
        sign == IF wt = "inh" THEN 0 - 1 ELSE 1
        scale == IF saturating /\ nest_opt THEN 1000 ELSE 1
    IN [k \in 1..Len(sel) |->
          [pre |-> sel[k][1], post |-> sel[k][2],
           weight |-> wbio.data[sel[k][1]][sel[k][2]] * sign * scale,
           delay |-> dl.data[sel[k][1]][sel[k][2]],
           tau_rec |-> IF saturating /\ ~tau_over
                       THEN sampler_tau_syn(smp[sel[k][2]], wt) ELSE 0]]

\* ThoroughBM.create(duration=..., _nest_optimization=...).  The result has
\* the value returned or the error raised, the attributes the call leaves
\* behind, the connection list it built last and the lists it handed to
\* sim.FromListConnector.  sim.Projection(population, population, ...) names
\* a variable the method never binds, so the first receptor type that has a
\* connection ends the call with a NameError, before the connector is built.
thorough_create(pop, smp, wtheo, wbio, dl, tso, saturating, duration, nest_opt) ==
    LET base == create(pop, smp, duration)
        wb == IF IsNone(wbio) THEN weights_bio_getter(smp, wtheo) ELSE wbio
        none == [exc |-> None, inh |-> None]
        n == Len(smp)
        has(wt) == \E i \in 1..n : \E j \in 1..n : weight_is(wb, wt, i, j)
        list(wt) == connection_list(wb, dl, smp, wt, saturating, nest_opt,
                                    tau_rec_overwritten(tso))
    IN IF IsError(base.val)
       THEN [val |-> base.val, population |-> pop, samplers |-> smp,
             weights_bio |-> wbio, projections |-> None, built |-> None,
             handed |-> none]
       ELSE IF IsError(wb)
       THEN [val |-> wb, population |-> base.population,
             samplers |-> base.samplers, weights_bio |-> wbio,
             projections |-> None, built |-> None, handed |-> none]
       ELSE IF has("exc")
       THEN [val |-> NameError, population |-> base.population,
             samplers |-> base.samplers, weights_bio |-> wb,
             projections |-> none, built |-> [wt |-> "exc", list |-> list("exc")],
             handed |-> none]
       ELSE IF has("inh")
       THEN [val |-> NameError, population |-> base.population,
             samplers |-> base.samplers, weights_bio |-> wb,
             projections |-> none, built |-> [wt |-> "inh", list |-> list("inh")],
             handed |-> none]
       ELSE [val |-> [population |-> base.population, projections |-> none],
             population |-> base.population, samplers |-> base.samplers,
             weights_bio |-> wb, projections |-> none, built |-> None,
             handed |-> none]

ThoroughCreate(duration, nest_opt) ==
    LET r == thorough_create(population, samplers, weights_theo, weights_bio,
                             delays, tso_params, saturating_synapses_enabled,
                             duration, nest_opt)
    IN /\ population' = r.population
       /\ samplers' = r.samplers
       /\ weights_bio' = r.weights_bio
       /\ projections' = IF IsNone(r.projections) THEN projections
                         ELSE r.projections
       /\ ret' = [op |-> "thorough_create", duration |-> duration,
                  val |-> r.val, built |-> r.built, handed |-> r.handed]
       /\ UNCHANGED <<num_samplers, weights_theo, delays, tso_params,
                      saturating_synapses_enabled, sim_name,
                      selected_sampler_idx, db_current_basename, saved,
                      spike_data, last_write,
                   caller_arrays, exchange, rapid>>

\* self.saturating_synapses_enabled = value
SetSaturatingSynapsesEnabled(value) ==
    /\ saturating_synapses_enabled' = value
    /\ ret' = [op |-> "set_saturating", arg |-> value]
    /\ UNCHANGED <<num_samplers, samplers, population, weights_theo,
                   weights_bio, delays, tso_params, sim_name,
                   selected_sampler_idx, db_current_basename, saved,
                   spike_data, projections, last_write,
                   caller_arrays, exchange, rapid>>

\* ------------------------------------------------- create specification
\* A ThoroughBM whose samplers are calibrated, or all but the last one, is
\* given weights and created.
InitCreate == InitWeights

NextCreate ==
    \/ \E w \in SquareInputs(num_samplers) \cup ScalarInputs : SetWeightsTheo(w)
    \/ \E w \in SquareInputs(num_samplers) : SetWeightsBio(w)
    \/ \E v \in BOOLEAN : SetSaturatingSynapsesEnabled(v)
    \/ \E d \in {None, Scalar(1)} : \E o \in BOOLEAN : ThoroughCreate(d, o)

SpecCreate == InitCreate /\ [][NextCreate]_vars

\* ============================================================ claim C11
\* the connections handed to the backend for a receptor type
Handed(wt) == IF IsNone(ret.handed[wt]) THEN <<>> ELSE ret.handed[wt].list

Occurrences(list, i, j) ==
    Cardinality({k \in 1..Len(list) : list[k].pre = i /\ list[k].post = j})

\* C11: when ThoroughBM.create passed the validation and weights_bio is
\* available, the lists handed to the backend partition weights_bio by sign:
\* a pair with a positive weight is once in the excitatory list and not in
\* the inhibitory one, a pair with a negative weight is once in the
\* inhibitory list with the magnitude as weight, a pair with weight 0 and
\* every pair (i, i) is in neither.
C11_ConnectionListsPartitionBySign ==
    (/\ ret.op = "thorough_create"
     /\ ~IsNone(ret.duration)
     /\ ~IsNone(weights_bio))
    => \A i \in 1..num_samplers : \A j \in 1..num_samplers :
         LET w == weights_bio.data[i][j]
             exc == Handed("exc")
             inh == Handed("inh")
         IN /\ (w > 0 => Occurrences(exc, i, j) = 1 /\ Occurrences(inh, i, j) = 0)
            /\ (w < 0 => /\ Occurrences(inh, i, j) = 1
                         /\ Occurrences(exc, i, j) = 0
                         /\ \A k \in 1..Len(inh) :
                              (inh[k].pre = i /\ inh[k].post = j)
                                 => inh[k].weight = 0 - w)
            /\ (w = 0 \/ i = j
                  => Occurrences(exc, i, j) = 0 /\ Occurrences(inh, i, j) = 0)

\* ====================================================== spike data
\* setter part of ThoroughBM.spike_data: a value with both keys is kept
SetSpikeData(sd) ==
    /\ spike_data' = sd
    /\ ret' = [op |-> "set_spike_data", arg |-> sd]
    /\ UNCHANGED <<num_samplers, samplers, population, weights_theo,
                   weights_bio, delays, tso_params,
                   saturating_synapses_enabled, sim_name,
                   selected_sampler_idx, db_current_basename, saved,
                   projections, last_write,
                   caller_arrays, exchange, rapid>>

\* sum((len(st) for st in spiketrains))
RECURSIVE num_spikes(_, _)
num_spikes(spiketrains, i) ==
    IF i > Len(spiketrains) THEN 0
    ELSE Len(spiketrains[i]) + num_spikes(spiketrains, i + 1)

\* the record array before sorting: the spikes of train 0, then those of
\* train 1 and so on, each with the index of its train as id
RECURSIVE flatten_spikes(_, _)
flatten_spikes(spiketrains, i) ==
    IF i > Len(spiketrains) THEN <<>>
    ELSE [k \in 1..Len(spiketrains[i]) |-> [id |-> i - 1, t |-> spiketrains[i][k]]]
         \o flatten_spikes(spiketrains, i + 1)

\* np.argsort(spikes["t"]) with the default kind (quicksort): an index array
\* that sorts the times; which of the arrays that do is not specified.
argsort(ts) ==
    {p \in Permutations(1..Len(ts)) :
        \A k \in 1..(Len(ts) - 1) : ts[p[k]] <= ts[p[k + 1]]}

\* utils.get_ordered_spike_idx: the record arrays the call can return
get_ordered_spike_idx_unsorted(spiketrains) ==
    {flatten_spikes(spiketrains, 1)}

get_ordered_spike_idx(spiketrains) ==
    LET spikes == flatten_spikes(spiketrains, 1)
        ts == [k \in 1..Len(spikes) |-> spikes[k].t]
    IN {[k \in 1..Len(spikes) |-> spikes[sort_idx[k]]] : sort_idx \in argsort(ts)}

\* ThoroughBM.ordered_spikes
OrderedSpikes ==
    /\ ~IsNone(spike_data)
    /\ \E sorted_spikes \in get_ordered_spike_idx(spike_data.spiketrains) :
          ret' = [op |-> "ordered_spikes", arg |-> spike_data.spiketrains,
                  val |-> sorted_spikes]
    /\ UNCHANGED <<num_samplers, samplers, population, weights_theo,
                   weights_bio, delays, rest, last_write>>

\* spike trains: one per sampler, MaxSpikes spikes at most in all, the times
\* in 0..MaxT and in any order
TrainsUpTo(m) == UNION {[1..k -> 0..MaxT] : k \in 0..m}

SpikeTrains(n) ==
    {st \in [1..n -> TrainsUpTo(MaxSpikes)] : num_spikes(st, 1) <= MaxSpikes}

\* ------------------------------------------------- spikes specification
\* Spike data are gathered once and then read in time order.
InitSpikes == \E n \in 1..MaxN : InitNetwork([j \in 1..n |-> 1])

NextSpikes ==
    \/ /\ IsNone(spike_data)
       /\ \E st \in SpikeTrains(num_samplers) :
             SetSpikeData([spiketrains |-> st, duration |-> MaxT + 1])
    \/ OrderedSpikes

SpecSpikes == InitSpikes /\ [][NextSpikes]_vars

\* ====================================================== claims C14, C15
CountIn(seq, r) == Cardinality({k \in 1..Len(seq) : seq[k] = r})

TimeSorted(train) == \A k \in 1..(Len(train) - 1) : train[k] <= train[k + 1]

\* C14: the result of get_ordered_spike_idx holds every spike of every train
\* exactly as often as the input does, each with the index of its train as
\* id, its length is the number of spikes, and its times never decrease;
\* this includes inputs whose trains are sorted already.
C14_OrderedSpikesSortedPermutation ==
    ret.op = "ordered_spikes"
    => /\ Len(ret.val) = num_spikes(ret.arg, 1)
       /\ \A i \in 1..Len(ret.arg) : \A t \in 0..MaxT :
            CountIn(ret.val, [id |-> i - 1, t |-> t])
               = Cardinality({k \in 1..Len(ret.arg[i]) : ret.arg[i][k] = t})
       /\ \A k \in 1..(Len(ret.val) - 1) : ret.val[k].t <= ret.val[k + 1].t

\* C14 witness: two trains, one of them not sorted, were merged into a
\* result with three spikes.
C14_Witness ==
    /\ ret.op = "ordered_spikes"
    /\ Len(ret.arg) = 2
    /\ \E i \in 1..2 : ~TimeSorted(ret.arg[i])
    /\ Len(ret.val) = 3
    /\ ret.val[1].t < ret.val[3].t

\* C15: spikes with the same time are in the result in the order of the
\* flattened input, the one of the lower sampler id first.
C15_OrderedSpikesStable ==
    ret.op = "ordered_spikes"
    => \A k \in 1..Len(ret.val) : \A l \in 1..Len(ret.val) :
          (k < l /\ ret.val[k].t = ret.val[l].t)
             => ret.val[k].id <= ret.val[l].id

\* ================================================ empirical distributions
\* sampler.neuron_params.tau_refrac, a field of the database entry
sampler_tau_refrac(sampler) == IF sampler.params_id = 1 THEN 1 ELSE 2

\* the elements of a set of small non-negative integers in the order
\* list(set(...)) walks them: the hash of such an integer is the integer and
\* it is below the size of the table, so the order is ascending
RECURSIVE set_to_list(_)
set_to_list(S) ==
    IF S = {} THEN <<>> ELSE <<Min(S)>> \o set_to_list(S \ {Min(S)})

\* setter part of ThoroughBM.selected_sampler_idx:
\* np.array(list(set(selected_sampler_idx)), dtype=np.int)
selected_sampler_idx_setter(idx) ==
    set_to_list({idx[k] : k \in 1..Len(idx)})

SetSelectedSamplerIdx(idx) ==
    /\ selected_sampler_idx' = selected_sampler_idx_setter(idx)
    /\ ret' = [op |-> "set_selected_sampler_idx", arg |-> idx]
    /\ UNCHANGED <<num_samplers, samplers, population, weights_theo,
                   weights_bio, delays, tso_params,
                   saturating_synapses_enabled, sim_name,
                   db_current_basename, saved, spike_data, projections,
                   last_write,
                   caller_arrays, exchange, rapid>>

\* ThoroughBM.dist_marginal_sim.  The sampler index i, counted from 0, is
\* used for self.samplers, for the spike trains and for the vector of
\* len(selected_sampler_idx) entries alike.  The entries are kept as
\* numerators over the duration the vector is divided by.
dist_marginal_sim(smp, sd, ssi) ==
    IF \E k \in 1..Len(ssi) :
          \/ ssi[k] >= Len(smp)
          \/ ssi[k] >= Len(sd.spiketrains)
          \/ ssi[k] >= Len(ssi)
    THEN IndexError
    ELSE [shape |-> <<Len(ssi)>>,
          data |-> [p \in 1..Len(ssi) |->
                      IF \E k \in 1..Len(ssi) : ssi[k] = p - 1
                      THEN Len(sd.spiketrains[p])
                              * sampler_tau_refrac(smp[p])
                      ELSE 0],
          over |-> sd.duration]

DistMarginalSim ==
    /\ ~IsNone(spike_data)
    /\ ret' = [op |-> "dist_marginal_sim",
               val |-> dist_marginal_sim(samplers, spike_data,
                                         selected_sampler_idx)]
    /\ UNCHANGED <<num_samplers, samplers, population, weights_theo,
                   weights_bio, delays, rest, last_write>>

\* cutils.get_bm_joint_sim: sampler i is ON during [t, t + tau_refrac) for
\* each of its spikes t; the tensor gives for every joint state of the
\* selected samplers the time spent in it within [0, duration), kept as a
\* numerator over the duration.
IsOn(spikes, id, tau, u) ==
    \E k \in 1..Len(spikes) :
        spikes[k].id = id /\ spikes[k].t <= u /\ u < spikes[k].t + tau

get_bm_joint_sim(spikes, ssi, tau_refrac_pss, duration) ==
    [shape |-> [k \in 1..Len(ssi) |-> 2],
     data |-> [s \in [1..Len(ssi) -> {0, 1}] |->
                 Cardinality({u \in 0..(duration - 1) :
                     \A k \in 1..Len(ssi) :
                        (s[k] = 1) = IsOn(spikes, ssi[k], tau_refrac_pss[k], u)})],
     over |-> duration]

\* ThoroughBM.dist_joint_sim
dist_joint_sim(smp, sd, ssi) ==
    IF \E k \in 1..Len(ssi) : ssi[k] >= Len(smp)
    THEN IndexError
    ELSE LET spikes == CHOOSE o \in get_ordered_spike_idx(sd.spiketrains) : TRUE
         IN get_bm_joint_sim(spikes, ssi,
                [k \in 1..Len(ssi) |-> sampler_tau_refrac(smp[ssi[k] + 1])],
                sd.duration)

DistJointSim ==
    /\ ~IsNone(spike_data)
    /\ ret' = [op |-> "dist_joint_sim",
               val |-> dist_joint_sim(samplers, spike_data,
                                      selected_sampler_idx)]
    /\ UNCHANGED <<num_samplers, samplers, population, weights_theo,
                   weights_bio, delays, rest, last_write>>

\* spike trains as the simulation records them, one per sampler with
\* ascending times, every refractory window within the duration
RecordedTrains(n) ==
    {st \in [1..n -> TrainsUpTo(MaxT + 1)] :
        \A i \in 1..n : \A k \in 1..(Len(st[i]) - 1) : st[i][k] < st[i][k + 1]}

\* index lists to select: MaxSel entries at most, each a sampler index or
\* the first index past the samplers
IndexLists(n) == UNION {[1..k -> 0..n] : k \in 0..MaxSel}

\* ------------------------------------------ distribution specification
\* Spike data are gathered once; samplers with an even index have
\* tau_refrac 1, the others 2.
InitDist ==
    \E n \in 1..MaxN : InitNetwork([j \in 1..n |-> 1 + ((j - 1) % 2)])

NextDist ==
    \/ /\ IsNone(spike_data)
       /\ \E st \in RecordedTrains(num_samplers) :
             SetSpikeData([spiketrains |-> st, duration |-> MaxT + 2])
    \/ \E idx \in IndexLists(num_samplers) : SetSelectedSamplerIdx(idx)
    \/ DistMarginalSim
    \/ DistJointSim

SpecDist == InitDist /\ [][NextDist]_vars

\* ================================================= claims C16, C17, C18
\* the selected samplers are a subset of [0, N)
SelectionInRange ==
    \A k \in 1..Len(selected_sampler_idx) :
        selected_sampler_idx[k] >= 0 /\ selected_sampler_idx[k] < num_samplers

\* C16: for every selected subset S of [0, N), dist_marginal_sim returns a
\* vector of |S| entries whose k-th entry is the number of spikes of the
\* k-th selected sampler times its tau_refrac, over the duration; it does
\* not fail by reaching outside the vector.
C16_MarginalPerSelectedSampler ==
    (ret.op = "dist_marginal_sim" /\ SelectionInRange)
    => /\ ~IsError(ret.val)
       /\ ret.val.shape = <<Len(selected_sampler_idx)>>
       /\ ret.val.over = spike_data.duration
       /\ \A k \in 1..Len(selected_sampler_idx) :
            ret.val.data[k]
               = Len(spike_data.spiketrains[selected_sampler_idx[k] + 1])
                   * sampler_tau_refrac(samplers[selected_sampler_idx[k] + 1])

\* no two spikes of a sampler are closer than its tau_refrac
WellSpaced ==
    \A i \in 1..Len(spike_data.spiketrains) :
        LET st == spike_data.spiketrains[i]
        IN \A k \in 1..Len(st) : \A l \in 1..Len(st) :
              k < l => st[l] - st[k] >= sampler_tau_refrac(samplers[i])

RECURSIVE SumOver(_, _)
SumOver(f, S) ==
    IF S = {} THEN 0
    ELSE LET x == CHOOSE y \in S : TRUE IN f[x] + SumOver(f, S \ {x})

\* the joint tensor summed over all axes but k, at the ON state of axis k
MarginalOfJoint(joint, k) ==
    SumOver(joint.data, {s \in DOMAIN joint.data : s[k] = 1})

\* C17: for any selected subset and spike data in which no two spikes of a
\* sampler are closer than its tau_refrac, the marginal of each selected
\* sampler computed directly equals the joint tensor summed over the other
\* axes at that sampler's ON state.
C17_MarginalMatchesJoint ==
    (ret.op = "dist_joint_sim" /\ SelectionInRange /\ WellSpaced)
    => LET m == dist_marginal_sim(samplers, spike_data, selected_sampler_idx)
       IN /\ ~IsError(ret.val)
          /\ ~IsError(m)
          /\ m.over = ret.val.over
          /\ \A k \in 1..Len(selected_sampler_idx) :
               m.data[k] = MarginalOfJoint(ret.val, k)

\* C18: after an assignment to selected_sampler_idx the stored array has no
\* duplicates, is ascending and holds only indices in [0, N): an index
\* outside that range in the assignment is not kept.
C18_SelectionSortedUniqueInRange ==
    ret.op = "set_selected_sampler_idx"
    => /\ \A k \in 1..(Len(selected_sampler_idx) - 1) :
            selected_sampler_idx[k] < selected_sampler_idx[k + 1]
       /\ SelectionInRange

\* The part of C18 the setter keeps: no duplicates, ascending.
C18_SelectionSortedUnique ==
    ret.op = "set_selected_sampler_idx"
    => \A k \in 1..(Len(selected_sampler_idx) - 1) :
          selected_sampler_idx[k] < selected_sampler_idx[k + 1]

\* ============================================== theoretical joint
\* cutils.get_bm_joint_theo: the probability of state s is exp(-E(s)) / Z
\* with E(s) = -0.5 s'Ws - b's.  The tensor is kept as the integer -2 E(s)
\* of every state, s'Ws + 2 b's: exp is increasing and Z is the same for
\* all states, so a state is more probable exactly if this is larger.
get_bm_joint_theo(lc_weights, lc_biases) ==
    LET k == lc_biases.shape[1]
        sWs(s) == SumOver([p \in (1..k) \X (1..k) |->
                             s[p[1]] * lc_weights.data[p[1]][p[2]] * s[p[2]]],
                          (1..k) \X (1..k))
        bs(s) == SumOver([i \in 1..k |-> lc_biases.data[i] * s[i]], 1..k)
    IN [shape |-> [i \in 1..k |-> 2],
        data |-> [s \in [1..k -> {0, 1}] |-> sWs(s) + 2 * bs(s)]]

\* ThoroughBM.dist_joint_theo: the biases and the weights of the selected
\* samplers, biases_theo[ssi] and weights_theo[ssi][:, ssi], go to
\* cutils.get_bm_joint_theo.
dist_joint_theo_biases_only(wtheo, btheo, ssi) ==
    IF IsError(btheo) THEN btheo
    ELSE IF \E k \in 1..Len(ssi) : ssi[k] >= btheo.shape[1] THEN IndexError
    ELSE get_bm_joint_theo(
            Filled2D(Len(ssi), Len(ssi), 0),
            [shape |-> <<Len(ssi)>>,
             data |-> [k \in 1..Len(ssi) |-> btheo.data[ssi[k] + 1]]])

dist_joint_theo(wtheo, btheo, ssi) ==
    IF IsError(btheo) THEN btheo
    ELSE IF IsError(wtheo) THEN wtheo
    ELSE IF \E k \in 1..Len(ssi) :
               ssi[k] >= btheo.shape[1] \/ ssi[k] >= wtheo.shape[1]
    THEN IndexError
    ELSE get_bm_joint_theo(
            [shape |-> <<Len(ssi), Len(ssi)>>,
             data |-> [k \in 1..Len(ssi) |-> [l \in 1..Len(ssi) |->
                         wtheo.data[ssi[k] + 1][ssi[l] + 1]]]],
            [shape |-> <<Len(ssi)>>,
             data |-> [k \in 1..Len(ssi) |-> btheo.data[ssi[k] + 1]]])

DistJointTheo ==
    LET w == IF IsNone(weights_theo)
             THEN weights_theo_getter(samplers, weights_bio) ELSE weights_theo
    IN /\ ret' = [op |-> "dist_joint_theo",
                  val |-> dist_joint_theo(w, biases_theo_getter(samplers),
                                          selected_sampler_idx)]
       /\ weights_theo' = IF IsError(w) THEN weights_theo ELSE w
       /\ UNCHANGED <<num_samplers, samplers, population, weights_bio,
                      delays, rest, last_write>>

\* ------------------------------------------- theoretical specification
\* A calibrated network is given weights, biases and a selection, and its
\* theoretical joint distribution is read.
InitTheo == \E n \in 1..MaxN : InitCalibrated([j \in 1..n |-> 1])

NextTheo ==
    \/ \E w \in SquareInputs(num_samplers) : SetWeightsTheo(w)
    \/ \E b \in BiasVals : SetBiasesTheo(Scalar(b))
    \/ \E idx \in {<<0>>, [j \in 1..num_samplers |-> j - 1]} :
          SetSelectedSamplerIdx(idx)
    \/ DistJointTheo

SpecTheo == InitTheo /\ [][NextTheo]_vars

\* ============================================================ claim C19
\* 2 samplers, weights_theo = [[0,1],[1,0]], biases_theo = [0,0], both
\* samplers selected, and the joint distribution was read
CoupledPair ==
    /\ ret.op = "dist_joint_theo"
    /\ num_samplers = 2
    /\ weights_theo = [shape |-> <<2, 2>>, data |-> <<<<0, 1>>, <<1, 0>>>>]
    /\ biases_theo_getter(samplers) = Filled1D(2, 0)
    /\ selected_sampler_idx = <<0, 1>>

\* s is more probable than r in the joint distribution read
MoreProbable(s, r) == ret.val.data[s] > ret.val.data[r]

EquallyProbable(s, r) == ret.val.data[s] = ret.val.data[r]

\* C19 as stated: for this network the states (1,1) and (0,0) are both
\* strictly more probable than each of (0,1) and (1,0), which are equally
\* probable.
C19_CoupledPairAsStated ==
    CoupledPair
    => /\ MoreProbable(<<1, 1>>, <<0, 1>>) /\ MoreProbable(<<1, 1>>, <<1, 0>>)
       /\ MoreProbable(<<0, 0>>, <<0, 1>>) /\ MoreProbable(<<0, 0>>, <<1, 0>>)
       /\ EquallyProbable(<<0, 1>>, <<1, 0>>)

\* C19 as amended: for this network the state (1,1) is strictly more
\* probable than each of (0,0), (0,1) and (1,0), and these three are
\* equally probable.
C19_CoupledPair ==
    CoupledPair
    => /\ MoreProbable(<<1, 1>>, <<0, 0>>)
       /\ MoreProbable(<<1, 1>>, <<0, 1>>)
       /\ MoreProbable(<<1, 1>>, <<1, 0>>)
       /\ EquallyProbable(<<0, 0>>, <<0, 1>>)
       /\ EquallyProbable(<<0, 1>>, <<1, 0>>)

\* C19 witness: the joint distribution of the coupled pair was computed.
C19_Witness == CoupledPair /\ ~IsError(ret.val)

\* ================================== membrane potential distributions
Abs(x) == IF x < 0 THEN 0 - x ELSE x

\* np.dot of two vectors of one length
Dot(a, b) == SumOver([i \in 1..Len(a) |-> a[i] * b[i]], 1..Len(a))

\* rates /= 1000.: the division is done in the array that was passed
rates_to_khz(rates) == [i \in 1..Len(rates) |-> rates[i] \div 1000]

Kernels ==
    {"IF_cond_exp", "IF_cond_alpha", "IF_curr_exp", "IF_curr_alpha"}

ZeroDivisionError == [err |-> "ZeroDivisionError"]

\* a / b where a or b is a numpy float: a zero divisor gives inf or nan and
\* a warning, never an exception
np_div(a, b) ==
    IF b = 0 THEN [nonfinite |-> IF a = 0 THEN "nan" ELSE "inf"]
    ELSE IF b < 0 THEN (0 - a) \div (0 - b) ELSE a \div b

\* g_tot of a kernel: the synaptic conductances and the leak for the
\* conductance based neurons, the leak alone for the current based ones
total_conductance(kernel, g_exc, g_inh, g_l) ==
    IF kernel \in {"IF_cond_exp", "IF_cond_alpha"}
    THEN g_exc + g_inh + g_l ELSE g_l

\* IF_cond_exp_distribution, IF_cond_alpha_distribution,
\* IF_curr_exp_distribution and IF_curr_alpha_distribution: the mean
\* potential, the total conductance and the effective time constant they
\* return, and the two rate arrays as the call leaves them.  np.exp(1.) is
\* the integer 3; the standard deviation, a square root, is left out.  The
\* pynn parameters are python floats: cm / g_tot of a current based kernel
\* divides two of them and raises on a zero g_l, every other division has a
\* numpy operand.  No kernel looks at the sign of g_tot.
membrane_distribution(kernel, rates_exc, rates_inh, weights_exc, weights_inh, p) ==
    LET khz_exc == rates_to_khz(rates_exc)
        khz_inh == rates_to_khz(rates_inh)
        e1 == IF kernel \in {"IF_cond_alpha", "IF_curr_alpha"} THEN 3 ELSE 1
        cond == kernel \in {"IF_cond_exp", "IF_cond_alpha"}
        w_exc == IF cond THEN [i \in 1..Len(weights_exc) |-> Abs(weights_exc[i])]
                 ELSE weights_exc
        w_inh == IF cond THEN [i \in 1..Len(weights_inh) |-> Abs(weights_inh[i])]
                 ELSE weights_inh
        g_exc == Dot(w_exc, khz_exc) * p.tau_syn_E * e1
        g_inh == Dot(w_inh, khz_inh) * p.tau_syn_I * e1
        g_tot == total_conductance(kernel, g_exc, g_inh, p.g_l)
        v_eff == IF cond
                 THEN np_div(p.e_rev_E * g_exc + p.e_rev_I * g_inh
                                + p.v_rest * p.g_l, g_tot)
                 ELSE np_div(g_exc + g_inh, p.g_l) + p.v_rest
    IN [val |-> IF ~cond /\ g_tot = 0 THEN ZeroDivisionError
                ELSE [v_eff |-> v_eff, g_tot |-> g_tot,
                      tau_eff |-> np_div(p.cm, g_tot),
                      khz_exc |-> khz_exc, khz_inh |-> khz_inh],
        rates_exc |-> khz_exc, rates_inh |-> khz_inh]

\* the pynn parameters of the neuron the kernels are called for
NeuronParams ==
    [e_rev_E |-> 0, e_rev_I |-> 0 - 100, tau_syn_E |-> 5, tau_syn_I |-> 5,
     g_l |-> 1, v_rest |-> 0 - 65, cm |-> 10]

\* a caller allocates its two rate arrays, in Hz
MakeRates(rates_exc, rates_inh) ==
    /\ IsNone(caller_arrays)
    /\ caller_arrays' = [rates_exc |-> rates_exc, rates_inh |-> rates_inh]
    /\ ret' = [op |-> "make_rates"]
    /\ UNCHANGED <<num_samplers, samplers, population, weights_theo,
                   weights_bio, delays, tso_params,
                   saturating_synapses_enabled, sim_name,
                   selected_sampler_idx, db_current_basename, saved,
                   spike_data, projections, exchange, rapid, last_write>>

\* one call of a kernel with the caller's arrays as rates_exc and rates_inh,
\* source i with the weights i and -i
Distribution(kernel) ==
    /\ ~IsNone(caller_arrays)
    /\ LET r == membrane_distribution(kernel,
                   caller_arrays.rates_exc, caller_arrays.rates_inh,
                   [i \in 1..Len(caller_arrays.rates_exc) |-> i],
                   [i \in 1..Len(caller_arrays.rates_inh) |-> 0 - i],
                   NeuronParams)
       IN /\ caller_arrays' = [rates_exc |-> r.rates_exc,
                               rates_inh |-> r.rates_inh]
          /\ ret' = [op |-> "distribution", kernel |-> kernel,
                     rates_exc |-> caller_arrays.rates_exc,
                     rates_inh |-> caller_arrays.rates_inh, val |-> r.val]
    /\ UNCHANGED <<num_samplers, samplers, population, weights_theo,
                   weights_bio, delays, tso_params,
                   saturating_synapses_enabled, sim_name,
                   selected_sampler_idx, db_current_basename, saved,
                   spike_data, projections, exchange, rapid, last_write>>

\* rate arrays: one entry per source, multiples of 1000 Hz
RateArrays(n) == [1..n -> {1000 * k : k \in 0..MaxRate}]

\* ------------------------------------------------ kernel specification
InitKernel == InitNetwork(<<1>>)

NextKernel ==
    \/ \E n \in 1..MaxN : \E re \in RateArrays(n) : \E ri \in RateArrays(n) :
          MakeRates(re, ri)
    \/ \E kernel \in Kernels : Distribution(kernel)

SpecKernel == InitKernel /\ [][NextKernel]_vars

\* ============================================================ claim C20
\* C20: a kernel uses the rates it was passed divided by 1000 once and
\* leaves the caller's rate arrays as they were, so a second call of the
\* same kernel with the same argument objects uses the same kHz rates and
\* returns the same result.
C20_RatesConvertedOnceArgumentsKept ==
    [][/\ (ret'.op = "distribution"
             => /\ caller_arrays' = caller_arrays
                /\ ret'.val.khz_exc
                     = [i \in 1..Len(ret'.rates_exc) |-> ret'.rates_exc[i] \div 1000])
       /\ ((ret.op = "distribution" /\ ret'.op = "distribution"
              /\ ret'.kernel = ret.kernel)
             => ret'.val = ret.val)]_vars

\* ------------------------------------------- leak conductance inputs
\* one call of a kernel for a neuron whose leak conductance is g_l
DistributionWithLeak(kernel, g_l) ==
    /\ ~IsNone(caller_arrays)
    /\ LET p == [NeuronParams EXCEPT !.g_l = g_l]
           r == membrane_distribution(kernel,
                   caller_arrays.rates_exc, caller_arrays.rates_inh,
                   [i \in 1..Len(caller_arrays.rates_exc) |-> i],
                   [i \in 1..Len(caller_arrays.rates_inh) |-> 0 - i], p)
       IN /\ caller_arrays' = [rates_exc |-> r.rates_exc,
                               rates_inh |-> r.rates_inh]
          /\ ret' = [op |-> "distribution", kernel |-> kernel, g_l |-> g_l,
                     rates_exc |-> caller_arrays.rates_exc,
                     rates_inh |-> caller_arrays.rates_inh, val |-> r.val]
    /\ UNCHANGED <<num_samplers, samplers, population, weights_theo,
                   weights_bio, delays, tso_params,
                   saturating_synapses_enabled, sim_name,
                   selected_sampler_idx, db_current_basename, saved,
                   spike_data, projections, exchange, rapid, last_write>>

\* leak conductances: negative, zero and positive
LeakValues == {0 - 1, 0, 1}

NextLeak ==
    \/ \E n \in 1..MaxN : \E re \in RateArrays(n) : \E ri \in RateArrays(n) :
          MakeRates(re, ri)
    \/ \E kernel \in Kernels : \E g_l \in LeakValues :
          DistributionWithLeak(kernel, g_l)

SpecLeak == InitKernel /\ [][NextLeak]_vars

\* ============================================================ claim C21
\* g_tot of the call that returned last
LastTotalConductance ==
    LET e1 == IF ret.kernel \in {"IF_cond_alpha", "IF_curr_alpha"} THEN 3 ELSE 1
        n == Len(ret.rates_exc)
    IN total_conductance(ret.kernel,
          Dot([i \in 1..n |-> i], rates_to_khz(ret.rates_exc))
             * NeuronParams.tau_syn_E * e1,
          Dot([i \in 1..n |-> i], rates_to_khz(ret.rates_inh))
             * NeuronParams.tau_syn_I * e1,
          ret.g_l)

\* C21: when the total conductance a kernel computes is zero or negative,
\* the kernel fails and returns no result: no tuple with an infinite, NaN or
\* otherwise meaningless v_eff or tau_eff comes back.
C21_NonPositiveConductanceFails ==
    (ret.op = "distribution" /\ LastTotalConductance <= 0)
    => IsError(ret.val)

\* ------------------------------------------------ gather_calibration_data
\* gather_calibration_data.py: the caller binds a REQ socket, spawns the file
\* itself as the worker process, sends the configuration and reads two
\* arrays.  exchange holds the caller's and the worker's position, the
\* messages in flight and the two fields of the partial calibration record.

\* The arrays a worker may answer with: every length from 0 to n + 1.
ResponseArrays(n) == {Filled1D(k, 0).data : k \in 0..(n + 1)}

\* comm.recv_array on the caller's socket: the next array in flight.
recv_array(frames) == Head(frames)

\* gather_calibration_data up to the request being built: the socket is
\* bound, the worker is spawned, nothing has been sent.  worker_code tells
\* which worker answers: "src", the file as it is, or "spec", a process that
\* follows the exchange the specification describes.
GatherCalibrationData(n, worker_code) ==
    /\ IsNone(exchange)
    /\ exchange' = [frames |-> <<>>, worker_code |-> worker_code,
                    caller |-> "send_json", worker |-> "spawned",
                    num_samples |-> n, requests |-> 0, request |-> None,
                    request_read |-> FALSE, reply |-> None,
                    returncode |-> None,
                    samples_v_rest |-> None, samples_p_on |-> None]
    /\ ret' = [op |-> "gather_calibration_data"]
    /\ UNCHANGED <<num_samplers, samplers, population, weights_theo,
                   weights_bio, delays, tso_params,
                   saturating_synapses_enabled, sim_name,
                   selected_sampler_idx, db_current_basename, saved,
                   spike_data, projections, caller_arrays, rapid, last_write>>

\* one step of the caller or of the worker: only exchange changes
ExchangeStep(x) ==
    /\ exchange' = x
    /\ UNCHANGED <<num_samplers, samplers, population, weights_theo,
                   weights_bio, delays, tso_params,
                   saturating_synapses_enabled, sim_name,
                   selected_sampler_idx, db_current_basename, saved,
                   spike_data, projections, caller_arrays, rapid, last_write,
                   ret>>

\* The file run as a script: _client_calibration_gather_data, defined with
\* the parameters (self, address), is called with sys.argv[1] alone.  The
\* call raises TypeError before the worker's socket exists; the process
\* exits with status 1.
WorkerMain ==
    /\ ~IsNone(exchange)
    /\ exchange.worker_code = "src"
    /\ exchange.worker = "spawned"
    /\ ExchangeStep([exchange EXCEPT !.worker = "exited", !.returncode = 1])

\* socket.send_json(cfg_data) on the bound REQ socket: it blocks until a
\* peer has connected.
CallerSendJson ==
    /\ ~IsNone(exchange)
    /\ exchange.caller = "send_json"
    /\ exchange.worker \in {"connected"}
    /\ ExchangeStep([exchange EXCEPT !.caller = "recv_v_rest",
                                     !.requests = @ + 1,
                                     !.request = [cfg |-> exchange.num_samples]])

\* dbpc.samples_v_rest = comm.recv_array(socket): blocks until an array is
\* in flight, stores it as it is.
CallerRecvVRest ==
    /\ ~IsNone(exchange)
    /\ exchange.caller = "recv_v_rest"
    /\ exchange.frames # <<>>
    /\ ExchangeStep([exchange EXCEPT !.caller = "recv_p_on",
                                     !.samples_v_rest = recv_array(exchange.frames),
                                     !.frames = Tail(@)])

\* dbpc.samples_p_on = comm.recv_array(socket)
CallerRecvPOn ==
    /\ ~IsNone(exchange)
    /\ exchange.caller = "recv_p_on"
    /\ exchange.frames # <<>>
    /\ ExchangeStep([exchange EXCEPT !.caller = "wait",
                                     !.samples_p_on = recv_array(exchange.frames),
                                     !.frames = Tail(@)])

\* proc.wait(): blocks until the worker has exited; the status is dropped
\* and gather_calibration_data returns None.
CallerWait ==
    /\ ~IsNone(exchange)
    /\ exchange.caller = "wait"
    /\ exchange.worker = "exited"
    /\ ExchangeStep([exchange EXCEPT !.caller = "returned"])

\* A worker following the described exchange: connect a REP socket, ...
WorkerConnect ==
    /\ ~IsNone(exchange)
    /\ exchange.worker_code = "spec"
    /\ exchange.worker = "spawned"
    /\ ExchangeStep([exchange EXCEPT !.worker = "connected"])

\* ... read the request, ...
WorkerRecvJson ==
    /\ ~IsNone(exchange)
    /\ exchange.worker = "connected"
    /\ ~IsNone(exchange.request)
    /\ ExchangeStep([exchange EXCEPT !.worker = "read", !.request = None,
                                     !.request_read = TRUE])

\* ... answer with samples_v_rest, then samples_p_on, as one message of two
\* framed arrays, ...
WorkerSendArrays(v, p) ==
    /\ ~IsNone(exchange)
    /\ exchange.worker = "read"
    /\ ExchangeStep([exchange EXCEPT !.worker = "replied",
                                     !.frames = <<v, p>>,
                                     !.reply = [samples_v_rest |-> v,
                                                samples_p_on |-> p]])

\* ... and exit; a worker may also die at any point with a status other
\* than 0.
WorkerExit(status) ==
    /\ ~IsNone(exchange)
    /\ exchange.worker_code = "spec"
    /\ exchange.worker \in {"connected", "read", "replied"}
    /\ status = 0 => exchange.worker = "replied"
    /\ ExchangeStep([exchange EXCEPT !.worker = "exited",
                                     !.returncode = status])

CallerNext ==
    \/ CallerSendJson
    \/ CallerRecvVRest
    \/ CallerRecvPOn
    \/ CallerWait

NextGather ==
    \/ \E n \in 1..MaxN, w \in {"src", "spec"} : GatherCalibrationData(n, w)
    \/ WorkerMain
    \/ CallerNext
    \/ WorkerConnect
    \/ WorkerRecvJson
    \/ \E n \in 1..MaxN : \E v \in ResponseArrays(n), p \in ResponseArrays(n) :
          WorkerSendArrays(v, p)
    \/ \E status \in {0, 1} : WorkerExit(status)

SpecGather == InitNetwork(<<1>>) /\ [][NextGather]_vars

C23_ExchangeOneRequestTwoArrays ==
    ~IsNone(exchange)
    => /\ exchange.requests <= 1
       /\ exchange.caller \in {"recv_v_rest", "recv_p_on", "wait", "returned"}
          => exchange.requests = 1
       /\ ~IsNone(exchange.reply) => exchange.request_read
       /\ exchange.caller = "returned"
          => /\ exchange.samples_v_rest = exchange.reply.samples_v_rest
             /\ exchange.samples_p_on = exchange.reply.samples_p_on
             /\ exchange.worker = "exited"
       /\ ~(ENABLED NextGather)
          => /\ exchange.requests = 1
             /\ exchange.request_read
             /\ ~IsNone(exchange.reply)
             /\ exchange.caller = "returned"

\* the worker failed: it exited with a status other than 0, or before it had
\* sent both arrays, or it sent an array of another length than num_samples
WorkerFailed ==
    \/ exchange.worker = "exited"
       /\ (exchange.returncode # 0 \/ IsNone(exchange.reply))
    \/ /\ ~IsNone(exchange.reply)
       /\ \/ Len(exchange.reply.samples_v_rest) # exchange.num_samples
          \/ Len(exchange.reply.samples_p_on) # exchange.num_samples

\* Claim C24: when the worker has failed, gather_calibration_data does not
\* return normally and does not block for ever: it has reported a
\* SimulationBackendError or it can still take a step.
C24_WorkerFailureReported ==
    (~IsNone(exchange) /\ WorkerFailed)
    => /\ exchange.caller # "returned"
       /\ exchange.caller = "SimulationBackendError" \/ ENABLED CallerNext

\* ------------------------------------------------------------ RapidBMBase
\* The rapid variants: RapidBMBase.__init__ adds the flag
\* _binary_state_set_externally and current_time; binary_state is None
\* while its value is to be computed from the last spike times.
MaxRuns == 2

RapidClasses == {"RapidBMCurrentImprint", "RapidBMSpikeImprint"}

AttributeError == [err |-> "AttributeError"]

\* RapidBMBase.__init__ (and RapidBMSpikeImprint.__init__) after
\* BoltzmannMachineBase.__init__; assigned is history: binary_state was
\* assigned from outside since _prepare_imprint ran last.
InitRapid(cls, n) ==
    /\ InitFields([j \in 1..n |-> 1])
    /\ rapid = [cls |-> cls, _binary_state_set_externally |-> FALSE,
                _sim |-> None, current_time |-> 0, binary_state |-> None,
                assigned |-> FALSE]

RapidStep(r, result) ==
    /\ rapid' = r
    /\ ret' = result
    /\ UNCHANGED <<num_samplers, samplers, population, weights_theo,
                   weights_bio, delays, tso_params,
                   saturating_synapses_enabled, sim_name,
                   selected_sampler_idx, db_current_basename, saved,
                   spike_data, projections, caller_arrays, exchange,
                   last_write>>

\* RapidBMBase.create: the backend module is kept in _sim.
RapidCreate ==
    /\ IsNone(rapid._sim)
    /\ RapidStep([rapid EXCEPT !._sim = [module |-> sim_name]],
                 [op |-> "create"])

\* binary_state = state with state not None: the flag is raised and the
\* state is kept as the value of the attribute.
SetBinaryState(state) ==
    RapidStep([rapid EXCEPT !._binary_state_set_externally = TRUE,
                            !.binary_state = state, !.assigned = TRUE],
              [op |-> "binary_state", arg |-> state])

\* RapidBMCurrentImprint._prepare_imprint programs the generators and
\* returns; RapidBMSpikeImprint._prepare_imprint ends with
\* self._binary_state_set_externally = False.
_prepare_imprint(r) ==
    IF r.cls = "RapidBMSpikeImprint"
    THEN [r EXCEPT !._binary_state_set_externally = FALSE]
    ELSE r

\* prepare_run: update_weights and update_biases write to the backend only;
\* then _prepare_imprint if the flag is up.  Before create, update_weights
\* fails on the missing backend.
PrepareRun ==
    IF IsNone(rapid._sim)
    THEN RapidStep(rapid, [val |-> AttributeError, op |-> "prepare_run"])
    ELSE IF rapid._binary_state_set_externally
    THEN RapidStep([_prepare_imprint(rapid) EXCEPT !.assigned = FALSE],
                   [val |-> None, op |-> "prepare_run",
                    assigned |-> rapid.assigned, imprinted |-> TRUE])
    ELSE RapidStep(rapid,
                   [val |-> None, op |-> "prepare_run",
                    assigned |-> rapid.assigned, imprinted |-> FALSE])

\* process_run: current_time is set from the simulator; last_spiketimes and
\* with it binary_state depend on current_time and are computed anew.
ProcessRun ==
    /\ ~IsNone(rapid._sim)
    /\ rapid.current_time < MaxRuns
    /\ RapidStep([rapid EXCEPT !.current_time = @ + 1,
                               !.binary_state = None],
                 [op |-> "process_run"])

BinaryStates(n) == [1..n -> {0, 1, 2}]

NextRapid ==
    \/ RapidCreate
    \/ \E state \in BinaryStates(num_samplers) : SetBinaryState(state)
    \/ PrepareRun
    \/ ProcessRun

SpecRapid ==
    /\ \E cls \in RapidClasses, n \in 1..MaxN : InitRapid(cls, n)
    /\ [][NextRapid]_vars

\* Claim C25: for both rapid variants a prepare_run calls _prepare_imprint
\* exactly when binary_state has been assigned from outside since the last
\* call of _prepare_imprint: the first prepare_run after an assignment
\* imprints, a later one only after another assignment.
C25_ImprintedByExactlyOneRun ==
    (ret.op = "prepare_run" /\ ~IsError(ret.val))
    => (ret.imprinted <=> ret.assigned)

\* ------------------------------------------------------- sbs/db/sources
\* Populations of the backend are records: the kind, the ids of the cells in
\* order and whether the cell type is conductance based.  A python list is
\* [kind |-> "list", items |-> <<...>>].  The cells of a network population
\* of size n have the ids 0..n-1, the index of their sampler.
MaxPop == 3
MaxSrc == 2

NotImplementedError == [err |-> "NotImplementedError"]

List(items) == [items |-> items, kind |-> "list"]

Population(cells, conductance_based) ==
    [kind |-> "Population", cells |-> cells,
     conductance_based |-> conductance_based]

NetworkPopulation(n, conductance_based) ==
    Population([k \in 1..n |-> k - 1], conductance_based)

\* population[a:b], a and b not negative: a view on the cells a..b-1 that
\* exist.
Slice(pop, a, b) ==
    LET n == Len(pop.cells)
        lo == IF a > n THEN n ELSE a
        hi == IF b > n THEN n ELSE b
    IN [kind |-> "PopulationView",
        cells |-> [k \in 1..(IF hi > lo THEN hi - lo ELSE 0) |->
                      pop.cells[lo + k]],
        conductance_based |-> pop.conductance_based]

\* A sampler as the functions of sources.py read it: network["population"]
\* (None for a sampler of no network), network["index"], its own population
\* of one cell and its source configuration (class and weights).
SourceSampler(index, net, cond, cls, weights) ==
    [population |-> IF IsNone(net) THEN Population(<<index>>, cond)
                    ELSE Slice(net, index, index + 1),
     network |-> [population |-> net, index |-> index],
     source_config |-> [weights |-> weights, cls |-> cls]]

\* get_population_from_samplers as written
get_population_from_samplers(l_samplers) ==
    IF l_samplers.kind = "Population" THEN l_samplers
    ELSE LET s == l_samplers.items
             n == Len(s)
         IN IF n = 1 THEN s[1].population
            ELSE IF IsNone(s[1].network.population)
            THEN List([k \in 1..n |-> s[k].population])
            ELSE IF s[1].network.index = 0 /\ s[n].network.index - 1 = n
            THEN s[1].network.population
            ELSE Slice(s[1].network.population, s[1].network.index,
                       s[n].network.index)

\* a call of a function of sources.py: only ret changes
SourcesCall(result) ==
    /\ ret' = result
    /\ UNCHANGED <<num_samplers, samplers, population, weights_theo,
                   weights_bio, delays, rest, last_write>>

GetPopulationFromSamplers(s) ==
    SourcesCall([samplers |-> s, val |-> get_population_from_samplers(s),
                 op |-> "get_population_from_samplers"])

\* n samplers at the adjacent positions first..first+n-1 of one network
\* population of size size
AdjacentSamplers(size, first, n, cond, weights) ==
    List([k \in 1..n |->
            SourceSampler(first + k - 1, NetworkPopulation(size, cond), cond,
                          "PoissonSourceConfiguration", weights[k])])

\* n samplers of no network, each with its own population
LoneSamplers(n, cond, weights) ==
    List([k \in 1..n |->
            SourceSampler(k - 1, None, cond, "PoissonSourceConfiguration",
                          weights[k])])

PopulationInputs ==
    {AdjacentSamplers(size, first, n, cond, [k \in 1..n |-> <<1>>]) :
        size \in 1..MaxPop, first \in 0..(MaxPop - 1), n \in 1..MaxPop,
        cond \in BOOLEAN}
    \cup {LoneSamplers(n, FALSE, [k \in 1..n |-> <<1>>]) : n \in 1..MaxPop}
    \cup {NetworkPopulation(size, cond) : size \in 1..MaxPop,
                                          cond \in BOOLEAN}

\* the samplers of the list sit in their population: first + n <= size
InPopulation(s) ==
    \A k \in 1..Len(s.items) :
        s.items[k].network.index < Len(s.items[k].network.population.cells)

\* Claim C26: for a list of n >= 2 samplers at adjacent positions of one
\* network population the returned view holds exactly the cells of those n
\* samplers, first and last included, wherever the first one sits.
C26_ViewHoldsAllSamplers ==
    (/\ ret.op = "get_population_from_samplers"
     /\ ret.samplers.kind = "list"
     /\ Len(ret.samplers.items) >= 2
     /\ ~IsNone(ret.samplers.items[1].network.population)
     /\ InPopulation(ret.samplers))
    => ret.val.cells = [k \in 1..Len(ret.samplers.items) |->
                           ret.samplers.items[k].network.index]

\* ------------------------------------------------ sources_create_connect
SourceClasses == {"SourceConfiguration", "PoissonSourceConfiguration",
                  "FixedSpikeTrainConfiguration"}

\* isinstance with every class the class of one group
isinstance_any(cls, of) == TRUE

\* isinstance(config, of): the class itself or the base class of all
isinstance(cls, of) == cls = of \/ of = "SourceConfiguration"

\* the loop of sources_create_connect over samplers[1:]
RECURSIVE sampler_same_src_cfg(_, _)
sampler_same_src_cfg(groups, todo) ==
    IF todo = <<>> THEN groups
    ELSE LET s == Head(todo)
             last == groups[Len(groups)]
         IN IF isinstance(s.source_config.cls, last[1].source_config.cls)
            THEN sampler_same_src_cfg(
                     [groups EXCEPT ![Len(groups)] = Append(@, s)],
                     Tail(todo))
            ELSE sampler_same_src_cfg(Append(groups, <<s>>), Tail(todo))

\* l_samplers[0].source_config.create_connect(sim, l_samplers, ...): the
\* base class raises NotImplementedError; the result of the two
\* configurations is stood for by the call that gave it.
create_connect(cls, l_samplers) ==
    IF cls = "SourceConfiguration" THEN NotImplementedError
    ELSE [samplers |-> l_samplers, config |-> cls]

\* sources_create_connect(sim, samplers, duration): samplers[0] of an empty
\* list raises IndexError; an exception of create_connect ends the call.
sources_create_connect(s) ==
    IF s = <<>> THEN IndexError
    ELSE LET groups == sampler_same_src_cfg(<<<<s[1]>>>>, Tail(s))
             results == [k \in 1..Len(groups) |->
                           create_connect(groups[k][1].source_config.cls,
                                          groups[k])]
         IN IF \E k \in 1..Len(groups) : IsError(results[k])
            THEN results[Min({k \in 1..Len(groups) : IsError(results[k])})]
            ELSE List(results)

SourcesCreateConnect(s) ==
    SourcesCall([samplers |-> s, val |-> sources_create_connect(s),
                 op |-> "sources_create_connect"])

\* lists of up to MaxPop samplers, each with a class of its own
SamplerLists ==
    UNION {{[k \in 1..n |-> SourceSampler(k - 1, None, FALSE, cls[k], <<1>>)] :
               cls \in [1..n -> SourceClasses]} : n \in 0..MaxPop}

RECURSIVE Concat(_)
Concat(seqs) == IF seqs = <<>> THEN <<>> ELSE Head(seqs) \o Concat(Tail(seqs))

\* Claim C27: the results of a call that succeeds stand for groups of the
\* sampler list: each group is not empty and has the configuration class of
\* the create_connect called for it, the groups in order give back the list
\* (so every sampler is in exactly one group and every group was handed to
\* create_connect once, in group order).
C27_GroupsPartitionByConfigType ==
    (ret.op = "sources_create_connect" /\ ~IsError(ret.val))
    => LET results == ret.val.items
       IN /\ Concat([k \in 1..Len(results) |-> results[k].samplers])
               = ret.samplers
          /\ \A k \in 1..Len(results) :
               /\ results[k].samplers # <<>>
               /\ \A j \in 1..Len(results[k].samplers) :
                    results[k].samplers[j].source_config.cls
                        = results[k].config

\* a list of three samplers in two groups went through
C27_Witness ==
    /\ ret.op = "sources_create_connect"
    /\ ~IsError(ret.val)
    /\ Len(ret.samplers) = 3
    /\ Len(ret.val.items) = 2

\* ------------------------------------------------- connecting the sources
\* sim.Projection(sources, post, FromListConnector(conn_list)): every tuple
\* (pre, post index, weight) gives one connection to the cell of post at
\* that index; an index outside post makes the connector fail.
Projection(post, receptor_type, conn_list) ==
    IF \E k \in 1..Len(conn_list) : conn_list[k].post >= Len(post.cells)
    THEN IndexError
    ELSE List([k \in 1..Len(conn_list) |->
                 [pre |-> conn_list[k].pre,
                  weight |-> conn_list[k].weight,
                  receptor_type |-> receptor_type,
                  target |-> post.cells[conn_list[k].post + 1]]])

\* the projections made so far and one more: the first exception wins
AddProjection(sofar, projection) ==
    IF IsError(sofar) THEN sofar
    ELSE IF IsError(projection) THEN projection
    ELSE List(sofar.items \o projection.items)

RECURSIVE AllProjections(_)
AllProjections(projs) ==
    IF projs = <<>> THEN List(<<>>)
    ELSE AddProjection(projs[1], AllProjections(Tail(projs)))

\* what iterating or indexing gives: the items of a list; for a population
\* or a view its cells, each read here as a population of that one cell.
\* A cell of the backend need not have the attribute conductance_based:
\* cells_have_flag tells whether reading it works.
ItemsOf(pop) ==
    IF pop.kind = "list" THEN pop.items
    ELSE [k \in 1..Len(pop.cells) |->
            [kind |-> "ID", cells |-> <<pop.cells[k]>>,
             conductance_based |-> pop.conductance_based]]

\* the weights of the samplers a configuration is connected to:
\* s.source_config.weights for a list, self.weights for every cell of a
\* population
WeightsOf(self_weights, l_samplers) ==
    IF l_samplers.kind = "list"
    THEN [k \in 1..Len(l_samplers.items) |->
            l_samplers.items[k].source_config.weights]
    ELSE [k \in 1..Len(l_samplers.cells) |-> self_weights]

\* the tuples (sampler j, source i, weight) in the order of the loops
Entries(weights) ==
    Concat([j \in 1..Len(weights) |->
              [i \in 1..Len(weights[j]) |->
                 [sampler |-> j - 1, weight |-> weights[j][i],
                  source |-> i - 1]]])

handed(pop, w) == IF pop.conductance_based THEN Abs(w) ELSE w

\* PoissonSourceConfiguration.create_nest_optimized, lines 286-328
create_nest_optimized(self_weights, l_samplers) ==
    LET weights == WeightsOf(self_weights, l_samplers)
        pop == get_population_from_samplers(l_samplers)
        conn(ct, post_of(_), on, entries) ==
            LET mine == SelectSeq(entries,
                          LAMBDA t : (t.weight > 0) = (ct = "excitatory"))
            IN [k \in 1..Len(mine) |->
                  [pre |-> <<mine[k].sampler, mine[k].source>>,
                   post |-> post_of(mine[k]),
                   weight |-> handed(on, mine[k].weight)]]
        same(t) == t.sampler
        zero(t) == 0
    IN IF pop.kind # "list"
       THEN AllProjections(
                [r \in 1..2 |->
                   LET ct == <<"inhibitory", "excitatory">>[r]
                   IN Projection(pop, ct,
                                 conn(ct, same, pop, Entries(weights)))])
       ELSE LET n == Min({Len(pop.items), Len(weights)})
            IN AllProjections(
                Concat([j \in 1..n |->
                   [r \in 1..2 |->
                      LET ct == <<"inhibitory", "excitatory">>[r]
                          mine == SelectSeq(Entries(weights),
                                    LAMBDA t : t.sampler = j - 1)
                      IN Projection(pop.items[j], ct,
                                    conn(ct, zero, pop.items[j], mine))]]))

\* connect_one_to_one, lines 104-146: for sampler j the tuples (i, j, weight)
\* go to a projection onto population[j:j+1] or population[j].
connect_one_to_one(l_population, weights, cells_have_flag) ==
    LET pops == IF l_population.kind = "Population"
                THEN [j \in 1..Len(l_population.cells) |->
                        Slice(l_population, j - 1, j)]
                ELSE ItemsOf(l_population)
        n == Min({Len(pops), Len(weights)})
        one(j, r) ==
            LET ct == <<"inhibitory", "excitatory">>[r]
                mine == SelectSeq(Entries(weights),
                           LAMBDA t : /\ t.sampler = j - 1
                                      /\ (t.weight > 0) = (ct = "excitatory"))
            IN IF pops[j].kind = "ID" /\ ~cells_have_flag
               THEN AttributeError
               ELSE Projection(pops[j], ct,
                       [k \in 1..Len(mine) |->
                          [pre |-> <<mine[k].sampler, mine[k].source>>,
                           post |-> j - 1,
                           weight |-> handed(pops[j], mine[k].weight)]])
    IN AllProjections(Concat([j \in 1..n |-> [r \in 1..2 |-> one(j, r)]]))

\* PoissonSourceConfiguration.create_connect without the optimization
create_regular_connect(self_weights, l_samplers, cells_have_flag) ==
    connect_one_to_one(get_population_from_samplers(l_samplers),
                       WeightsOf(self_weights, l_samplers), cells_have_flag)

\* FixedSpikeTrainConfiguration.connect_sources_regular, lines 415-464
connect_sources_regular(l_population, conn_list, cells_have_flag) ==
    LET part(r, w) == IF r = 1 THEN w < 0 ELSE w >= 0
        ct(r) == <<"inhibitory", "excitatory">>[r]
    IN IF l_population.kind = "Population"
       THEN AllProjections(
               [r \in 1..2 |->
                  LET mine == SelectSeq(conn_list,
                                 LAMBDA t : part(r, t.weight))
                  IN Projection(l_population, ct(r),
                        [k \in 1..Len(mine) |->
                           [pre |-> <<mine[k].sampler, mine[k].source>>,
                            post |-> mine[k].sampler,
                            weight |-> handed(l_population,
                                              mine[k].weight)]])])
       ELSE LET pops == ItemsOf(l_population)
            IN AllProjections(Concat(
                 [j \in 1..Len(pops) |-> [r \in 1..2 |->
                    LET mine == SelectSeq(conn_list,
                                   LAMBDA t : /\ part(r, t.weight)
                                              /\ t.sampler = j - 1)
                    IN IF pops[j].kind = "ID" /\ ~cells_have_flag
                       THEN AttributeError
                       ELSE Projection(pops[j], ct(r),
                              [k \in 1..Len(mine) |->
                                 [pre |-> <<mine[k].sampler, mine[k].source>>,
                                  post |-> 0,
                                  weight |-> handed(pops[j],
                                                    mine[k].weight)]])]]))

\* FixedSpikeTrainConfiguration.create_connect_regular: conn_list holds
\* (source, sampler j, weight) for every weight of every sampler.
create_connect_regular(self_weights, l_samplers, cells_have_flag) ==
    connect_sources_regular(get_population_from_samplers(l_samplers),
                            Entries(WeightsOf(self_weights, l_samplers)),
                            cells_have_flag)

\* the cells the samplers are, in the order of the argument
TargetsOf(l_samplers) ==
    IF l_samplers.kind = "list"
    THEN [k \in 1..Len(l_samplers.items) |->
            l_samplers.items[k].population]
    ELSE [k \in 1..Len(l_samplers.cells) |->
            Slice(l_samplers, k - 1, k)]

PoissonCreateNestOptimized(self_weights, s) ==
    SourcesCall([weights |-> WeightsOf(self_weights, s),
                 val |-> create_nest_optimized(self_weights, s),
                 op |-> "create_connect", path |-> "nest_optimized",
                 targets |-> TargetsOf(s)])

PoissonCreateRegular(self_weights, s, cells_have_flag) ==
    SourcesCall([weights |-> WeightsOf(self_weights, s),
                 val |-> create_regular_connect(self_weights, s,
                                                cells_have_flag),
                 op |-> "create_connect", path |-> "connect_one_to_one",
                 targets |-> TargetsOf(s)])

FixedSpikeTrainCreateConnect(self_weights, s, cells_have_flag) ==
    SourcesCall([weights |-> WeightsOf(self_weights, s),
                 val |-> create_connect_regular(self_weights, s,
                                                cells_have_flag),
                 op |-> "create_connect", path |-> "fixed_spike_train",
                 targets |-> TargetsOf(s)])

\* weights of one sampler: 1 to MaxSrc sources, excitatory or inhibitory
SourceWeights == UNION {[1..n -> {0 - 1, 1}] : n \in 1..MaxSrc}

\* the weights of a configuration and the samplers it is connected to: a
\* population, lone samplers, or samplers next to each other in a network
\* population; with a list the configuration is that of the first sampler
ConnectInputs ==
    {<<w, NetworkPopulation(n, cond)>> :
        w \in SourceWeights, n \in 1..MaxN, cond \in BOOLEAN}
    \cup UNION {{<<w[1], LoneSamplers(n, cond, w)>> :
                    w \in [1..n -> SourceWeights]} :
                   n \in 1..MaxN, cond \in BOOLEAN}
    \cup UNION {{<<w[1], AdjacentSamplers(first + n, first, n, cond, w)>> :
                    w \in [1..n -> SourceWeights]} :
                   n \in 1..MaxN, first \in 0..1, cond \in BOOLEAN}

\* The functions of sources.py keep nothing between calls: each is called
\* once, on the network as constructed.
NextSources ==
    \/ ret.op = "init" /\ \E s \in PopulationInputs :
          GetPopulationFromSamplers(s)
    \/ ret.op = "init" /\ \E s \in SamplerLists : SourcesCreateConnect(s)
    \/ ret.op = "init" /\ \E c \in ConnectInputs :
          PoissonCreateNestOptimized(c[1], c[2])
    \/ ret.op = "init" /\ \E c \in ConnectInputs, f \in BOOLEAN :
          PoissonCreateRegular(c[1], c[2], f)
    \/ ret.op = "init" /\ \E c \in ConnectInputs, f \in BOOLEAN :
          FixedSpikeTrainCreateConnect(c[1], c[2], f)

SpecSources == InitNetwork(<<1>>) /\ [][NextSources]_vars

\* Claim C28: on the Poisson and the fixed spike train paths every weight
\* entry (source i of sampler j) gives exactly one connection, onto the cell
\* of sampler j, excitatory for a positive and inhibitory for a negative
\* weight, with the absolute value as weight for a conductance based target.
C28_OneConnectionPerWeightEntry ==
    (ret.op = "create_connect")
    => /\ ~IsError(ret.val)
       /\ LET conns == ret.val.items
              entries == Entries(ret.weights)
          IN /\ Len(conns) = Len(entries)
             /\ \A k \in 1..Len(entries) :
                  LET t == entries[k]
                      cell == ret.targets[t.sampler + 1]
                  IN \E c \in 1..Len(conns) :
                       /\ conns[c].pre = <<t.sampler, t.source>>
                       /\ conns[c].target = cell.cells[1]
                       /\ conns[c].receptor_type
                            = (IF t.weight > 0 THEN "excitatory"
                               ELSE "inhibitory")
                       /\ conns[c].weight
                            = (IF cell.conductance_based THEN Abs(t.weight)
                               ELSE t.weight)

\* ------------------------------------------- group_identical_parameters
\* utils.group_identical_parameters(parameters, num_elements): parameters
\* maps names to a scalar [scalar |-> v] or to a sequence [seq |-> <<...>>].
MaxElems == 3

ValueError == [err |-> "ValueError"]

ParameterNames == {"foo", "bar"}

\* isinstance(v, c.Sized) and isinstance(v, c.Iterable)
IsSized(v) == "seq" \in DOMAIN v

\* np.unique(v): the values of v in ascending order without repetition
np_unique(v) == set_to_list({v[i] : i \in 1..Len(v)})

\* the inverse of a np.unique that knows one value only
np_unique_inverse_zero(v) == [i \in 1..Len(v) |-> 0]

\* np.unique(v, return_inverse=True)[1]: for every element the position of
\* its value in np.unique(v), counted from 0
np_unique_inverse(v) ==
    [i \in 1..Len(v) |->
        (CHOOSE u \in 1..Len(np_unique(v)) : np_unique(v)[u] = v[i]) - 1]

\* The groups the generator yields, as a set: they come in the order in
\* which a python set hands out the index tuples.
group_identical_parameters(parameters, n) ==
    LET all_num_elements == {Len(parameters[k].seq) :
                               k \in {p \in ParameterNames :
                                        IsSized(parameters[p])}}
        num_elements == IF IsNone(n)
                        THEN CHOOSE l \in all_num_elements : TRUE
                        ELSE n.int
        uniq_vals == [k \in ParameterNames |->
                        IF IsSized(parameters[k])
                        THEN np_unique(parameters[k].seq)
                        ELSE <<parameters[k].scalar>>]
        uniq_indices == [k \in ParameterNames |->
                           IF IsSized(parameters[k])
                           THEN np_unique_inverse(parameters[k].seq)
                           ELSE [i \in 1..num_elements |-> 0]]
        uniq_combs == {[k \in ParameterNames |-> uniq_indices[k][i]] :
                          i \in 1..num_elements}
        elem_indices(indices) ==
            {i \in 1..num_elements :
                \A k \in ParameterNames : uniq_indices[k][i] = indices[k]}
    IN IF IsNone(n) /\ all_num_elements = {}
       THEN [yielded |-> {[parameters |-> [k \in ParameterNames |->
                                              parameters[k].scalar],
                           indices |-> <<0>>]}]
       ELSE IF \E l \in all_num_elements : l # num_elements
       THEN ValueError
       ELSE [yielded |->
               {[parameters |-> [k \in ParameterNames |->
                                   uniq_vals[k][indices[k] + 1]],
                 indices |-> [j \in 1..Cardinality(elem_indices(indices)) |->
                                set_to_list(elem_indices(indices))[j] - 1]] :
                  indices \in {c \in uniq_combs : elem_indices(c) # {}}}]

GroupIdenticalParameters(parameters, n) ==
    /\ ret' = [val |-> group_identical_parameters(parameters, n),
               op |-> "group_identical_parameters",
               parameters |-> parameters, num_elements |-> n]
    /\ UNCHANGED <<num_samplers, samplers, population, weights_theo,
                   weights_bio, delays, rest, last_write>>

\* scalars and sequences of up to MaxElems values
ParameterValues ==
    {[scalar |-> v] : v \in 1..2}
    \cup {[seq |-> s] : s \in UNION {[1..l -> 1..2] : l \in 0..MaxElems}}

NumElements == {None} \cup {[int |-> l] : l \in 0..MaxElems}

\* group_identical_parameters keeps nothing between calls: it is called
\* once
NextGroup ==
    ret.op = "init"
    /\ \E parameters \in [ParameterNames -> ParameterValues],
          n \in NumElements : GroupIdenticalParameters(parameters, n)

SpecGroup == InitNetwork(<<1>>) /\ [][NextGroup]_vars

\* the value element i (from 0) has for parameter k
ElementValue(parameters, k, i) ==
    IF IsSized(parameters[k]) THEN parameters[k].seq[i + 1]
    ELSE parameters[k].scalar

\* the lengths of the sequences among the parameters
SizedLengths(parameters) ==
    {Len(parameters[k].seq) :
        k \in {p \in ParameterNames : IsSized(parameters[p])}}

\* the number of elements the call is about
ElementCount(parameters, n) ==
    IF ~IsNone(n) THEN n.int
    ELSE IF SizedLengths(parameters) = {} THEN 1
    ELSE CHOOSE l \in SizedLengths(parameters) : TRUE

\* Claim C29: sequences whose lengths differ (from each other or from
\* num_elements) raise ValueError with no group yielded; otherwise the index
\* arrays of the groups partition [0, num_elements), two elements are in one
\* group exactly if they agree on every parameter, and each group comes with
\* the values its elements share (a scalar parameter with its one value).
C29_GroupsPartitionByParameters ==
    (ret.op = "group_identical_parameters")
    => LET p == ret.parameters
           num == ElementCount(p, ret.num_elements)
           InGroup(g, i) == \E j \in 1..Len(g.indices) : g.indices[j] = i
       IN IF \E l \in SizedLengths(p) : l # num
          THEN ret.val = ValueError
          ELSE /\ ~IsError(ret.val)
               /\ \A i \in 0..(num - 1) :
                    Cardinality({g \in ret.val.yielded : InGroup(g, i)}) = 1
               /\ \A g \in ret.val.yielded :
                    /\ Len(g.indices) > 0
                    /\ \A j \in 1..Len(g.indices) :
                         /\ g.indices[j] \in 0..(num - 1)
                         /\ \A j2 \in 1..Len(g.indices) :
                              g.indices[j] = g.indices[j2] => j = j2
                         /\ \A k \in ParameterNames :
                              g.parameters[k]
                                = ElementValue(p, k, g.indices[j])
               /\ \A i \in 0..(num - 1), i2 \in 0..(num - 1) :
                    (\E g \in ret.val.yielded : InGroup(g, i) /\ InGroup(g, i2))
                    <=> \A k \in ParameterNames :
                          ElementValue(p, k, i) = ElementValue(p, k, i2)

\* three elements in two groups, one parameter a scalar
C29_Witness ==
    /\ ret.op = "group_identical_parameters"
    /\ ~IsError(ret.val)
    /\ Cardinality(ret.val.yielded) = 2
    /\ ElementCount(ret.parameters, ret.num_elements) = 3
    /\ \E k \in ParameterNames : ~IsSized(ret.parameters[k])

\* ---------------------------------------------- the ways to construct
\* BoltzmannMachineBase.__init__ with its arguments: pynn_model is None,
\* [str |-> model] or [list |-> models]; neuron_parameters is None,
\* [dict |-> p] or [list |-> <<p, ...>>]; neuron_index_to_parameters is None
\* or [list |-> indices]; neuron_parameters_db_ids is None, [int |-> id] or
\* [list |-> ids].
Exception == [err |-> "Exception"]

Repeat(x, n) == [j \in 1..n |-> x]

\* samplers.LIFsampler(pynn_model=..., neuron_parameters=...): a sampler
\* built from a dictionary has no entry in the database (params_id 0)
LIFsamplerFromParameters(model, parameters) ==
    [LIFsampler(0) EXCEPT !.pynn_model = model]

\* lines 79-108: the list self.samplers, or what __init__ raises
init_samplers(n, pynn_model, neuron_parameters, neuron_index_to_parameters, neuron_parameters_db_ids) ==
    IF IsNone(pynn_model) /\ ~IsNone(neuron_parameters)
    THEN [err |-> "ValueError", msg |-> "No neuron model specified."]
    ELSE
    LET models == IF IsNone(pynn_model) THEN <<>>
                  ELSE IF "str" \in DOMAIN pynn_model
                  THEN Repeat(pynn_model.str, n)
                  ELSE pynn_model.list
    IN IF ~IsNone(neuron_parameters)
       THEN LET params == IF "dict" \in DOMAIN neuron_parameters
                          THEN <<neuron_parameters.dict>>
                          ELSE neuron_parameters.list
                index == IF "dict" \in DOMAIN neuron_parameters
                         THEN Repeat(0, n)
                         ELSE IF IsNone(neuron_index_to_parameters)
                         THEN [j \in 1..n |-> j - 1]
                         ELSE neuron_index_to_parameters.list
            IN IF \E j \in 1..Len(index) :
                     index[j] >= Len(models) \/ index[j] >= Len(params)
               THEN IndexError
               ELSE List([j \in 1..Len(index) |->
                            LIFsamplerFromParameters(models[index[j] + 1],
                                                     params[index[j] + 1])])
       ELSE IF ~IsNone(neuron_parameters_db_ids)
       THEN LET ids == IF "int" \in DOMAIN neuron_parameters_db_ids
                       THEN Repeat(neuron_parameters_db_ids.int, n)
                       ELSE neuron_parameters_db_ids.list
            IN List([j \in 1..Len(ids) |-> LIFsampler(ids[j])])
       ELSE Exception

\* the network after a construction that raised nothing: lines 76-79 and
\* 114-120 around the samplers
InitConstructed(n, pynn_model, neuron_parameters, neuron_index_to_parameters, neuron_parameters_db_ids) ==
    LET s == init_samplers(n, pynn_model, neuron_parameters,
                           neuron_index_to_parameters,
                           neuron_parameters_db_ids)
    IN /\ ~IsError(s)
       /\ num_samplers = n
       /\ samplers = s.items
       /\ population = None
       /\ weights_theo = check_weight_matrix(n, Scalar(0))
       /\ weights_bio = None
       /\ delays = Filled2D(n, n, 1)
       /\ tso_params = None
       /\ saturating_synapses_enabled = TRUE
       /\ sim_name = "pyNN.nest"
       /\ selected_sampler_idx = [j \in 1..n |-> j - 1]
       /\ db_current_basename = "db_a"
       /\ saved = None
       /\ spike_data = None
       /\ projections = None
       /\ caller_arrays = None
       /\ exchange = None
       /\ rapid = None
       /\ last_write = [val |-> weights_theo, view |-> "theo"]
       /\ ret = [op |-> "init"]

SeqsUpTo(S, maxlen) == UNION {[1..l -> S] : l \in 0..maxlen}

\* the five ways of giving the neuron parameters, and none of them
InitNeuronParameters ==
    {<<[dict |-> 1], None, None>>}
    \cup {<<[list |-> p], None, None>> : p \in SeqsUpTo({1, 2}, MaxN + 1)}
    \cup {<<[list |-> p], [list |-> i], None>> :
             p \in SeqsUpTo({1}, MaxN) \ {<<>>},
             i \in SeqsUpTo(0..(MaxN - 1), MaxN + 1)}
    \cup {<<None, None, [int |-> id]>> : id \in ParamsIds}
    \cup {<<None, None, [list |-> ids]>> : ids \in SeqsUpTo(ParamsIds, MaxN + 1)}
    \cup {<<None, None, None>>}

InitModels == {None, [str |-> "IF_cond_exp"]}

InitWays ==
    \E n \in 1..MaxN, m \in InitModels, w \in InitNeuronParameters :
        InitConstructed(n, m, w[1], w[2], w[3])

NextInit == GetBiasesTheo \/ GetBiasesBio

SpecInit == InitWays /\ [][NextInit]_vars

\* Claim C30: after a construction that succeeded, by whichever way the
\* neuron parameters were given, there are num_samplers samplers: the weight
\* matrix is num_samplers x num_samplers and the sampler list has that
\* length.
C30_SamplersAgreeWithNumSamplers ==
    /\ Len(samplers) = num_samplers
    /\ weights_theo.shape = <<Len(samplers), Len(samplers)>>

====
